---- MODULE Spec2Model ----
(***************************************************************************)
(* Change-request application engine of AI-Architecture-Hub.               *)
(*                                                                         *)
(* Five specifications share this module:                                  *)
(*   Spec          - one call of applyChangeRequestToSpec, executed        *)
(*                   statement by statement over a heap of JS objects,     *)
(*                   so that aliasing between the request, the current     *)
(*                   spec and the working copy is observable, followed     *)
(*                   by the summary of its preview.                        *)
(*   TotalSpec     - the same call on arguments that lack a list, where    *)
(*                   a statement may throw.                                *)
(*   ValidatorSpec - validateSpec / validateCircularRelations applied to   *)
(*                   entity graphs.                                        *)
(*   ServerSpec    - the HTTP handlers that persist a spec, interleaved    *)
(*                   at their await points over the database.              *)
(*   ReviewSpec    - the apply-change handler for a feature, interleaved   *)
(*                   with the review and decision routes.                  *)
(***************************************************************************)
EXTENDS Integers, Sequences, FiniteSets, TLC

VARIABLES
    \* ---- applyChangeRequestToSpec call frame (Spec) ----
    specs,          \* heap of spec objects: "cur" (argument), "work" (clone)
    objs,           \* heap of requirement / entity / endpoint objects
    changeRequest,  \* the request argument; add-operations hold object refs
    workingSpec,    \* local workingSpec: which spec object it points to
    conflicts,      \* local conflicts array
    impacts,        \* local impacts array
    opIndex,        \* position of the for..of loop
    applyConflicts, \* how many conflicts each operation pushed (history)
    pc,             \* "call" | "loop" | "returned" | "threw" | "summarised"
    result,         \* the returned ApplyResult (deep value)
    impactSummary,  \* what preview-change derives from the result
    currentSpec0,   \* deep snapshot of currentSpec at the call
    changeRequest0, \* deep snapshot of changeRequest at the call
    \* ---- validateSpec call (ValidatorSpec) ----
    vSpec,          \* the spec handed to validateSpec
    vConflicts,     \* its return value
    vpc,            \* "call" | "returned" | "threw"
    \* ---- server (ServerSpec) ----
    project,        \* the Project row: spec and lock
    versions,       \* the Version rows of the project
    features,       \* the Feature rows
    reviews,        \* the ProjectReview rows
    now,            \* wall clock
    reqs,           \* the HTTP requests in flight
    specLog         \* history: where each stored spec value came from

applyVars  == <<specs, objs, changeRequest, workingSpec, conflicts, impacts,
                opIndex, applyConflicts, pc, result, impactSummary, currentSpec0,
                changeRequest0>>
validVars  == <<vSpec, vConflicts, vpc>>
serverVars == <<project, versions, features, reviews, now, reqs, specLog>>
vars       == <<applyVars, validVars, serverVars>>

----------------------------------------------------------------------------
(* Bounds *)

MaxOps == 2          \* longest change request drawn for Spec
MaxGraph == 3        \* most entities in a graph drawn for ValidatorSpec

----------------------------------------------------------------------------
(* Generic helpers *)

Min(S) == CHOOSE x \in S : \A y \in S : x <= y

\* Array.prototype.find / findIndex: position of the first match, 0 if none
FirstIndex(seq, Test(_)) ==
    LET hits == { i \in DOMAIN seq : Test(seq[i]) }
    IN  IF hits = {} THEN 0 ELSE Min(hits)

\* Object.assign(target, patch): shallow overwrite of the patch's own keys
ObjectAssign(target, patch) ==
    [ k \in (DOMAIN target) \cup (DOMAIN patch) |->
        IF k \in DOMAIN patch THEN patch[k] ELSE target[k] ]

\* JS truthiness of patch[k]: the key is present and is not the empty string
Truthy(patch, k) == k \in DOMAIN patch /\ patch[k] # ""

\* a ?? b on patch[k]
Nullish(patch, k, dflt) == IF k \in DOMAIN patch THEN patch[k] ELSE dflt

Sections == {"requirements", "entities", "endpoints"}

----------------------------------------------------------------------------
(* sanitizePath, on the paths the model draws *)

SanitizePath(path) ==
    CASE path = "/a" -> "a"
      [] path = "/b" -> "b"
      [] path = "/"  -> "root"
      [] OTHER       -> path

----------------------------------------------------------------------------
(* validateSpec and validateCircularRelations, on deep spec values *)

RECURSIVE visit(_, _, _)
RECURSIVE visitRelations(_, _, _, _)

\* const visit = (entity) => boolean, threading visited / stack / conflicts.
\* st = [visited, stack, conflicts]; returns [found, st]
visit(entities, entity, st) ==
    IF entity.id \in st.stack
    THEN [found |-> TRUE,
          st |-> [st EXCEPT !.conflicts = Append(@,
                    [type |-> "circular-relation",
                     message |-> <<"Circular relation detected involving ", entity.name>>,
                     details |-> [entityId |-> entity.id, entityName |-> entity.name]])]]
    ELSE IF entity.id \in st.visited
    THEN [found |-> FALSE, st |-> st]
    ELSE visitRelations(entities, entity, 1,
            [st EXCEPT !.visited = @ \cup {entity.id},
                       !.stack = @ \cup {entity.id}])

\* for (const relation of entity.relations) { ... }  stack.delete; return false
visitRelations(entities, entity, k, st) ==
    IF k > Len(entity.relations)
    THEN [found |-> FALSE, st |-> [st EXCEPT !.stack = @ \ {entity.id}]]
    ELSE LET target == entity.relations[k].target
             ti == FirstIndex(entities,
                      LAMBDA item : item.name = target \/ item.id = target)
         IN  IF ti = 0
             THEN visitRelations(entities, entity, k + 1, st)
             ELSE LET r == visit(entities, entities[ti], st)
                  IN  IF r.found
                      THEN [found |-> TRUE, st |-> r.st]
                      ELSE visitRelations(entities, entity, k + 1, r.st)

RECURSIVE visitRoots(_, _, _)
\* entities.forEach((entity) => { if (!visited.has(entity.id)) visit(entity) })
visitRoots(entities, i, st) ==
    IF i > Len(entities) THEN st
    ELSE IF entities[i].id \in st.visited
         THEN visitRoots(entities, i + 1, st)
         ELSE visitRoots(entities, i + 1, visit(entities, entities[i], st).st)

validateCircularRelations(entities) ==
    visitRoots(entities, 1, [visited |-> {}, stack |-> {}, conflicts |-> <<>>]).conflicts

\* the field test looking at the name only
InvalidFieldName(field) == field.name = ""

\* !field.name || !field.type
InvalidField(field) == field.name = "" \/ field.type = ""

RECURSIVE fieldConflicts(_, _)
\* entity.fields.forEach((field) => { if (!field.name || !field.type) push })
fieldConflicts(entity, k) ==
    IF k > Len(entity.fields) THEN <<>>
    ELSE (IF InvalidField(entity.fields[k])
          THEN << [type |-> "missing-field",
                   message |-> <<"Entity ", entity.name, " has an invalid field definition">>,
                   details |-> [entityName |-> entity.name, field |-> entity.fields[k]]] >>
          ELSE <<>>) \o fieldConflicts(entity, k + 1)

RECURSIVE entityConflicts(_, _, _)
\* first loop of validateSpec: duplicate names and field sanity, in list order
entityConflicts(entities, i, entityNames) ==
    IF i > Len(entities) THEN <<>>
    ELSE LET entity == entities[i]
             dup == entity.name \in entityNames
         IN  (IF dup
              THEN << [type |-> "naming",
                       message |-> <<"Duplicate entity name detected: ", entity.name>>,
                       details |-> [entityName |-> entity.name]] >>
              ELSE <<>>)
             \o fieldConflicts(entity, 1)
             \o entityConflicts(entities, i + 1, entityNames \cup {entity.name})

\* `${endpoint.method}:${endpoint.path}`; a method holds no ':', so the
\* concatenation determines the pair and is kept as its parts
Signature(endpoint) == <<endpoint.method, ":", endpoint.path>>

RECURSIVE endpointConflicts(_, _, _)
\* second loop of validateSpec: duplicate (method, path) signatures
endpointConflicts(endpoints, i, endpointSignatures) ==
    IF i > Len(endpoints) THEN <<>>
    ELSE LET endpoint == endpoints[i]
             dup == Signature(endpoint) \in endpointSignatures
         IN  (IF dup
              THEN << [type |-> "naming",
                       message |-> <<"Duplicate endpoint detected: ", endpoint.method, " ", endpoint.path>>,
                       details |-> [method |-> endpoint.method, path |-> endpoint.path]] >>
              ELSE <<>>)
             \o endpointConflicts(endpoints, i + 1, endpointSignatures \cup {Signature(endpoint)})

validateSpec(spec) ==
    entityConflicts(spec.entities, 1, {})
    \o endpointConflicts(spec.endpoints, 1, {})
    \o validateCircularRelations(spec.entities)

\* validateSpec ends in a TypeError: for..of over a list the spec lacks
\* (spec.entities, spec.endpoints), entity.fields.forEach on an entity
\* without fields, or for..of over entity.relations in visit, which runs
\* for every entity
validateSpecThrows(spec) ==
    IF "entities" \notin DOMAIN spec
    THEN TRUE
    ELSE IF \E i \in DOMAIN spec.entities : "fields" \notin DOMAIN spec.entities[i]
    THEN TRUE
    ELSE IF "endpoints" \notin DOMAIN spec
    THEN TRUE
    ELSE \E i \in DOMAIN spec.entities : "relations" \notin DOMAIN spec.entities[i]

----------------------------------------------------------------------------
(* The heap.  A spec object holds three arrays of object references and    *)
(* its folder_structure; requirement / entity / endpoint objects live in   *)
(* objs.  Fields, relations, schemas and folder trees are never mutated in *)
(* place by the applier, so they are carried as values.                    *)

\* the object carried by the i-th operation of the request
ReqRef(i) == <<"req", "op", i>>

AddTypes == {"addRequirement", "addEntity", "addEndpoint"}

\* the key under which an add-operation carries its object
Payload(type) ==
    CASE type = "addRequirement" -> "requirement"
      [] type = "addEntity"      -> "entity"
      [] type = "addEndpoint"    -> "endpoint"

\* the deep value of a spec object; a key the object lacks stays absent
DerefSpec(ss, os, ptr) ==
    [ key \in DOMAIN ss[ptr] |->
        IF key \in Sections
        THEN [ k \in DOMAIN ss[ptr][key] |-> os[ss[ptr][key][k]] ]
        ELSE ss[ptr][key] ]

\* the deep value of a change request
DerefRequest(cr, os) ==
    [ summary |-> cr.summary,
      operations |-> [ i \in DOMAIN cr.operations |->
          LET op == cr.operations[i]
          IN  IF op.type \in AddTypes
              THEN [op EXCEPT ![Payload(op.type)] = os[@]]
              ELSE op ] ]

\* the spec object "cur" built from a deep spec value
SpecObject(sv, owner) ==
    [ key \in DOMAIN sv |->
        IF key \in Sections
        THEN [ k \in DOMAIN sv[key] |-> <<owner, key, k>> ]
        ELSE sv[key] ]

SpecObjects(sv, owner) ==
    [ r \in UNION { { <<owner, sec, k>> : k \in DOMAIN sv[sec] } :
                       sec \in Sections \cap DOMAIN sv } |->
        sv[r[2]][r[3]] ]

\* the request argument built from a deep request value
RequestObject(rv) ==
    [ summary |-> rv.summary,
      operations |-> [ i \in DOMAIN rv.operations |->
          LET op == rv.operations[i]
          IN  IF op.type \in AddTypes
              THEN [op EXCEPT ![Payload(op.type)] = ReqRef(i)]
              ELSE op ] ]

RequestObjects(rv) ==
    [ r \in { ReqRef(i) : i \in { j \in DOMAIN rv.operations : rv.operations[j].type \in AddTypes } } |->
        rv.operations[r[3]][Payload(rv.operations[r[3]].type)] ]

\* a copy that shares the element objects with currentSpec, as
\* { ...currentSpec, entities: [...currentSpec.entities], ... } would
ShallowClone(w) ==
    [ w EXCEPT !.specs = [ @ EXCEPT !["work"] = w.specs["cur"] ],
               !.ptr   = "work" ]

\* const workingSpec = JSON.parse(JSON.stringify(currentSpec)):
\* a fresh spec object whose arrays hold fresh copies of every element
JsonClone(w) ==
    LET sv == DerefSpec(w.specs, w.objs, "cur")
    IN  [ w EXCEPT !.specs = [ @ EXCEPT !["work"] = SpecObject(sv, "work") ],
                   !.objs  = SpecObjects(sv, "work") @@ @,
                   !.ptr   = "work" ]

----------------------------------------------------------------------------
(* One iteration of the for..of loop of applyChangeRequestToSpec.          *)
(* w = [specs, objs, ptr, conflicts, impacts]                              *)

List(w, sec) == w.specs[w.ptr][sec]

Push(w, sec, ref) == [ w EXCEPT !.specs[w.ptr][sec] = Append(@, ref) ]

\* workingSpec[sec] = workingSpec[sec].filter((item) => item.id !== id)
FilterOut(w, sec, id) ==
    [ w EXCEPT !.specs[w.ptr][sec] = SelectSeq(@, LAMBDA r : w.objs[r].id # id) ]

Conflict(w, c) == [ w EXCEPT !.conflicts = Append(@, c) ]
Impact(w, i)   == [ w EXCEPT !.impacts = Append(@, i) ]

caseAddRequirement(w, operation) ==
    LET requirement == w.objs[operation.requirement]
        exists == \E k \in DOMAIN List(w, "requirements") :
                     w.objs[List(w, "requirements")[k]].id = requirement.id
    IN  IF exists
        THEN Conflict(w, [type |-> "naming",
                          message |-> <<"Requirement with id ", requirement.id, " already exists">>,
                          details |-> [requirementId |-> requirement.id]])
        ELSE Impact(Push(w, "requirements", operation.requirement),
                    [description |-> <<"Requirement added">>,
                     affectedFiles |-> << <<"docs/requirements.md">> >>])

caseUpdateRequirement(w, operation) ==
    LET k == FirstIndex(List(w, "requirements"),
                        LAMBDA r : w.objs[r].id = operation.requirementId)
    IN  IF k = 0
        THEN Conflict(w, [type |-> "missing-field",
                          message |-> <<"Requirement ", operation.requirementId, " not found">>,
                          details |-> [requirementId |-> operation.requirementId]])
        ELSE LET ref == List(w, "requirements")[k]
             IN  Impact([w EXCEPT !.objs[ref] = ObjectAssign(@, operation.patch)],
                        [description |-> <<"Requirement updated">>,
                         affectedFiles |-> << <<"docs/requirements.md">> >>])

\* removeRequirement that reports nothing when the id is not found
caseRemoveRequirementSilent(w, operation) ==
    LET initialLength == Len(List(w, "requirements"))
        w2 == FilterOut(w, "requirements", operation.requirementId)
    IN  IF initialLength = Len(List(w2, "requirements"))
        THEN w2
        ELSE Impact(w2, [description |-> <<"Requirement removed">>,
                         affectedFiles |-> << <<"docs/requirements.md">> >>])

caseRemoveRequirement(w, operation) ==
    LET initialLength == Len(List(w, "requirements"))
        w2 == FilterOut(w, "requirements", operation.requirementId)
    IN  IF initialLength = Len(List(w2, "requirements"))
        THEN Conflict(w2, [type |-> "missing-field",
                           message |-> <<"Requirement ", operation.requirementId, " not found for removal">>,
                           details |-> [requirementId |-> operation.requirementId]])
        ELSE Impact(w2, [description |-> <<"Requirement removed">>,
                         affectedFiles |-> << <<"docs/requirements.md">> >>])

\* addEntity testing the id instead of the name
caseAddEntityById(w, operation) ==
    LET entity == w.objs[operation.entity]
        idExists == \E k \in DOMAIN List(w, "entities") :
                       w.objs[List(w, "entities")[k]].id = entity.id
    IN  IF idExists
        THEN Conflict(w, [type |-> "naming",
                          message |-> <<"Entity with name ", entity.name, " already exists">>,
                          details |-> [entityName |-> entity.name]])
        ELSE Impact(Push(w, "entities", operation.entity),
                    [description |-> <<"Entity ", entity.name, " added">>,
                     affectedEntities |-> <<entity.name>>,
                     affectedFiles |-> << <<"prisma/schema.prisma">>, <<"src/entities/", entity.name, ".ts">> >>])

caseAddEntity(w, operation) ==
    LET entity == w.objs[operation.entity]
        nameExists == \E k \in DOMAIN List(w, "entities") :
                         w.objs[List(w, "entities")[k]].name = entity.name
    IN  IF nameExists
        THEN Conflict(w, [type |-> "naming",
                          message |-> <<"Entity with name ", entity.name, " already exists">>,
                          details |-> [entityName |-> entity.name]])
        ELSE Impact(Push(w, "entities", operation.entity),
                    [description |-> <<"Entity ", entity.name, " added">>,
                     affectedEntities |-> <<entity.name>>,
                     affectedFiles |-> << <<"prisma/schema.prisma">>, <<"src/entities/", entity.name, ".ts">> >>])

\* updateEntity without the break after the naming conflict
caseUpdateEntityNoBreak(w, operation) ==
    LET k == FirstIndex(List(w, "entities"), LAMBDA r : w.objs[r].id = operation.entityId)
    IN  IF k = 0
        THEN Conflict(w, [type |-> "missing-field",
                          message |-> <<"Entity ", operation.entityId, " not found">>,
                          details |-> [entityId |-> operation.entityId]])
        ELSE LET ref == List(w, "entities")[k]
                 duplicate ==
                     /\ Truthy(operation.patch, "name")
                     /\ \E j \in DOMAIN List(w, "entities") :
                           LET other == w.objs[List(w, "entities")[j]]
                           IN  other.id # operation.entityId /\ other.name = operation.patch.name
                 w1 == IF duplicate
                       THEN Conflict(w, [type |-> "naming",
                                         message |-> <<"Entity name ", operation.patch.name, " already in use">>,
                                         details |-> [entityId |-> operation.entityId,
                                                      newName |-> operation.patch.name]])
                       ELSE w
                 w2 == [w1 EXCEPT !.objs[ref] = ObjectAssign(@, operation.patch)]
                 entity == w2.objs[ref]
             IN  IF duplicate THEN w2
                 ELSE Impact(w2, [description |-> <<"Entity ", entity.name, " updated">>,
                                  affectedEntities |-> <<entity.name>>,
                                  affectedFiles |-> << <<"prisma/schema.prisma">>,
                                                      <<"src/entities/", entity.name, ".ts">> >>])

caseUpdateEntity(w, operation) ==
    LET k == FirstIndex(List(w, "entities"), LAMBDA r : w.objs[r].id = operation.entityId)
    IN  IF k = 0
        THEN Conflict(w, [type |-> "missing-field",
                          message |-> <<"Entity ", operation.entityId, " not found">>,
                          details |-> [entityId |-> operation.entityId]])
        ELSE LET ref == List(w, "entities")[k]
                 duplicate ==
                     /\ Truthy(operation.patch, "name")
                     /\ \E j \in DOMAIN List(w, "entities") :
                           LET other == w.objs[List(w, "entities")[j]]
                           IN  other.id # operation.entityId /\ other.name = operation.patch.name
             IN  IF duplicate
                 THEN Conflict(w, [type |-> "naming",
                                   message |-> <<"Entity name ", operation.patch.name, " already in use">>,
                                   details |-> [entityId |-> operation.entityId,
                                                newName |-> operation.patch.name]])
                 ELSE LET w2 == [w EXCEPT !.objs[ref] = ObjectAssign(@, operation.patch)]
                          entity == w2.objs[ref]
                      IN  Impact(w2, [description |-> <<"Entity ", entity.name, " updated">>,
                                      affectedEntities |-> <<entity.name>>,
                                      affectedFiles |-> << <<"prisma/schema.prisma">>,
                                                          <<"src/entities/", entity.name, ".ts">> >>])

\* removeEntity looking the id up in currentSpec instead of the working copy
caseRemoveEntityOnCurrent(w, operation) ==
    LET k == FirstIndex(w.specs["cur"].entities, LAMBDA r : w.objs[r].id = operation.entityId)
    IN  IF k = 0
        THEN Conflict(w, [type |-> "missing-field",
                          message |-> <<"Entity ", operation.entityId, " not found for removal">>,
                          details |-> [entityId |-> operation.entityId]])
        ELSE LET entity == w.objs[w.specs["cur"].entities[k]]
             IN  Impact(FilterOut(w, "entities", operation.entityId),
                        [description |-> <<"Entity ", entity.name, " removed">>,
                         affectedEntities |-> <<entity.name>>,
                         affectedFiles |-> << <<"prisma/schema.prisma">> >>])

caseRemoveEntity(w, operation) ==
    LET k == FirstIndex(List(w, "entities"), LAMBDA r : w.objs[r].id = operation.entityId)
    IN  IF k = 0
        THEN Conflict(w, [type |-> "missing-field",
                          message |-> <<"Entity ", operation.entityId, " not found for removal">>,
                          details |-> [entityId |-> operation.entityId]])
        ELSE LET entity == w.objs[List(w, "entities")[k]]
             IN  Impact(FilterOut(w, "entities", operation.entityId),
                        [description |-> <<"Entity ", entity.name, " removed">>,
                         affectedEntities |-> <<entity.name>>,
                         affectedFiles |-> << <<"prisma/schema.prisma">> >>])

\* addEndpoint testing the path alone
caseAddEndpointByPath(w, operation) ==
    LET endpoint == w.objs[operation.endpoint]
        pathExists == \E k \in DOMAIN List(w, "endpoints") :
                         w.objs[List(w, "endpoints")[k]].path = endpoint.path
    IN  IF pathExists
        THEN Conflict(w, [type |-> "naming",
                          message |-> <<"Endpoint ", endpoint.method, " ", endpoint.path, " already exists">>,
                          details |-> [method |-> endpoint.method, path |-> endpoint.path]])
        ELSE Impact(Push(w, "endpoints", operation.endpoint),
                    [description |-> <<"Endpoint ", endpoint.method, " ", endpoint.path, " added">>,
                     affectedEndpoints |-> << <<endpoint.method, " ", endpoint.path>> >>,
                     affectedFiles |-> << <<"openapi.json">>,
                                         <<"src/routes/", SanitizePath(endpoint.path), ".ts">> >>])

caseAddEndpoint(w, operation) ==
    LET endpoint == w.objs[operation.endpoint]
        pathExists == \E k \in DOMAIN List(w, "endpoints") :
                         LET e == w.objs[List(w, "endpoints")[k]]
                         IN  e.path = endpoint.path /\ e.method = endpoint.method
    IN  IF pathExists
        THEN Conflict(w, [type |-> "naming",
                          message |-> <<"Endpoint ", endpoint.method, " ", endpoint.path, " already exists">>,
                          details |-> [method |-> endpoint.method, path |-> endpoint.path]])
        ELSE Impact(Push(w, "endpoints", operation.endpoint),
                    [description |-> <<"Endpoint ", endpoint.method, " ", endpoint.path, " added">>,
                     affectedEndpoints |-> << <<endpoint.method, " ", endpoint.path>> >>,
                     affectedFiles |-> << <<"openapi.json">>,
                                         <<"src/routes/", SanitizePath(endpoint.path), ".ts">> >>])

caseUpdateEndpoint(w, operation) ==
    LET k == FirstIndex(List(w, "endpoints"), LAMBDA r : w.objs[r].id = operation.endpointId)
    IN  IF k = 0
        THEN Conflict(w, [type |-> "missing-field",
                          message |-> <<"Endpoint ", operation.endpointId, " not found">>,
                          details |-> [endpointId |-> operation.endpointId]])
        ELSE LET ref == List(w, "endpoints")[k]
                 newPath == Nullish(operation.patch, "path", w.objs[ref].path)
                 newMethod == Nullish(operation.patch, "method", w.objs[ref].method)
                 duplicate ==
                     /\ Truthy(operation.patch, "path") \/ Truthy(operation.patch, "method")
                     /\ \E j \in DOMAIN List(w, "endpoints") :
                           LET other == w.objs[List(w, "endpoints")[j]]
                           IN  /\ other.id # operation.endpointId
                               /\ other.path = newPath
                               /\ other.method = newMethod
             IN  IF duplicate
                 THEN Conflict(w, [type |-> "naming",
                                   message |-> <<"Endpoint ", newMethod, " ", newPath, " already exists">>,
                                   details |-> [endpointId |-> operation.endpointId,
                                                path |-> newPath, method |-> newMethod]])
                 ELSE LET w2 == [w EXCEPT !.objs[ref] = ObjectAssign(@, operation.patch)]
                          endpoint == w2.objs[ref]
                      IN  Impact(w2, [description |-> <<"Endpoint ", endpoint.method, " ", endpoint.path, " updated">>,
                                      affectedEndpoints |-> << <<endpoint.method, " ", endpoint.path>> >>,
                                      affectedFiles |-> << <<"openapi.json">>,
                                                          <<"src/routes/", SanitizePath(endpoint.path), ".ts">> >>])

caseRemoveEndpoint(w, operation) ==
    LET k == FirstIndex(List(w, "endpoints"), LAMBDA r : w.objs[r].id = operation.endpointId)
    IN  IF k = 0
        THEN Conflict(w, [type |-> "missing-field",
                          message |-> <<"Endpoint ", operation.endpointId, " not found for removal">>,
                          details |-> [endpointId |-> operation.endpointId]])
        ELSE LET endpoint == w.objs[List(w, "endpoints")[k]]
             IN  Impact(FilterOut(w, "endpoints", operation.endpointId),
                        [description |-> <<"Endpoint ", endpoint.method, " ", endpoint.path, " removed">>,
                         affectedEndpoints |-> << <<endpoint.method, " ", endpoint.path>> >>,
                         affectedFiles |-> << <<"openapi.json">> >>])

\* updateFolderStructure that also resets the requirements
caseUpdateFolderStructureReset(w, operation) ==
    Impact([w EXCEPT !.specs[w.ptr].folder_structure = operation.folder_structure,
                     !.specs[w.ptr].requirements = <<>>],
           [description |-> <<"Folder structure updated">>,
            affectedFiles |-> << <<"scaffolding">> >>])

caseUpdateFolderStructure(w, operation) ==
    Impact([w EXCEPT !.specs[w.ptr].folder_structure = operation.folder_structure],
           [description |-> <<"Folder structure updated">>,
            affectedFiles |-> << <<"scaffolding">> >>])

caseDefault(w, operation) ==
    Conflict(w, [type |-> "validation",
                 message |-> <<"Unsupported operation ", operation.type>>])

\* switch (operation.type)
applyOperation(w, operation) ==
    CASE operation.type = "addRequirement"        -> caseAddRequirement(w, operation)
      [] operation.type = "updateRequirement"     -> caseUpdateRequirement(w, operation)
      [] operation.type = "removeRequirement"     -> caseRemoveRequirement(w, operation)
      [] operation.type = "addEntity"             -> caseAddEntity(w, operation)
      [] operation.type = "updateEntity"          -> caseUpdateEntity(w, operation)
      [] operation.type = "removeEntity"          -> caseRemoveEntity(w, operation)
      [] operation.type = "addEndpoint"           -> caseAddEndpoint(w, operation)
      [] operation.type = "updateEndpoint"        -> caseUpdateEndpoint(w, operation)
      [] operation.type = "removeEndpoint"        -> caseRemoveEndpoint(w, operation)
      [] operation.type = "updateFolderStructure" -> caseUpdateFolderStructure(w, operation)
      [] OTHER                                    -> caseDefault(w, operation)

RECURSIVE applyOperations(_, _, _)
applyOperations(w, operations, i) ==
    IF i > Len(operations) THEN w
    ELSE applyOperations(applyOperation(w, operations[i]), operations, i + 1)

\* the frame at the call: the arguments laid out on the heap
CallFrame(sv, rv) ==
    [ specs     |-> [ cur |-> SpecObject(sv, "cur"), work |-> SpecObject(sv, "cur") ],
      objs      |-> SpecObjects(sv, "cur") @@ RequestObjects(rv),
      ptr       |-> "cur",
      conflicts |-> <<>>,
      impacts   |-> <<>> ]

\* applyChangeRequestToSpec as a function of deep values: the returned
\* ApplyResult, and what the two arguments look like after the call
ApplyResult(cr, w, proposed) ==
    [ spec      |-> proposed,
      conflicts |-> w.conflicts \o validateSpec(proposed),
      impacts   |-> w.impacts,
      applyTime |-> Len(w.conflicts),
      currentSpecAfter |-> DerefSpec(w.specs, w.objs, "cur"),
      requestAfter     |-> DerefRequest(cr, w.objs) ]

LoopResult(cr, w) == ApplyResult(cr, w, DerefSpec(w.specs, w.objs, w.ptr))

applyChangeRequestToSpec(currentSpec, request) ==
    LoopResult(RequestObject(request),
               applyOperations(JsonClone(CallFrame(currentSpec, request)),
                               RequestObject(request).operations, 1))

----------------------------------------------------------------------------
(* collectImpactedFiles and generateImpactSummary.  A JS Set is kept as    *)
(* the sequence of its members in insertion order, as Array.from reads it. *)

\* an array that takes every value, as newEntities.push(x) does
ArrayPush(set, x) == Append(set, x)

\* set.add(x)
SetAdd(set, x) ==
    IF \E i \in DOMAIN set : set[i] = x THEN set ELSE Append(set, x)

RECURSIVE AddEach(_, _, _)
\* items.forEach((x) => set.add(x)), from position k on
AddEach(set, items, k) ==
    IF k > Len(items) THEN set ELSE AddEach(SetAdd(set, items[k]), items, k + 1)

\* impact[key] ?? []
OrEmpty(impact, key) == IF key \in DOMAIN impact THEN impact[key] ELSE <<>>

\* part.includes(word), for the literal parts of the impact descriptions
\* and the entity names, methods and paths the model draws
PartIncludes(part, word) ==
    CASE word = "added"   -> part \in {"Requirement added", " added", "added"}
      [] word = "removed" -> part \in {"Requirement removed", " removed", "removed"}
      [] word = "updated" -> part \in {"Requirement updated", " updated",
                                       "Folder structure updated", "updated"}
      [] OTHER            -> FALSE

\* the test of another word than the one asked for
IncludesUpdated(description, word) ==
    \E k \in DOMAIN description : PartIncludes(description[k], "updated")

\* impact.description.includes(word); no word of the three spans two
\* parts of a description
Includes(description, word) ==
    \E k \in DOMAIN description : PartIncludes(description[k], word)

RECURSIVE collectFiles(_, _, _)
collectFiles(impacts_, i, files) ==
    IF i > Len(impacts_) THEN files
    ELSE collectFiles(impacts_, i + 1, AddEach(files, OrEmpty(impacts_[i], "affectedFiles"), 1))

\* collectImpactedFiles
collectImpactedFiles(preview) == collectFiles(preview.impacts, 1, <<>>)

RECURSIVE scanImpacts(_, _, _)
\* preview.impacts.forEach((impact) => { ... }) of generateImpactSummary
scanImpacts(impacts_, i, acc) ==
    IF i > Len(impacts_) THEN acc
    ELSE LET impact == impacts_[i]
             added == Includes(impact.description, "added")
             removed == Includes(impact.description, "removed")
         IN  scanImpacts(impacts_, i + 1,
               [ entities  |-> AddEach(acc.entities, OrEmpty(impact, "affectedEntities"), 1),
                 endpoints |-> AddEach(acc.endpoints, OrEmpty(impact, "affectedEndpoints"), 1),
                 files     |-> AddEach(acc.files, OrEmpty(impact, "affectedFiles"), 1),
                 newEntities |->
                     IF added THEN acc.newEntities \o OrEmpty(impact, "affectedEntities")
                     ELSE acc.newEntities,
                 newEndpoints |->
                     IF added THEN acc.newEndpoints \o OrEmpty(impact, "affectedEndpoints")
                     ELSE acc.newEndpoints,
                 removedEntities |->
                     IF removed THEN acc.removedEntities \o OrEmpty(impact, "affectedEntities")
                     ELSE acc.removedEntities,
                 removedEndpoints |->
                     IF removed THEN acc.removedEndpoints \o OrEmpty(impact, "affectedEndpoints")
                     ELSE acc.removedEndpoints ])

generateImpactSummary(preview) ==
    LET acc == scanImpacts(preview.impacts, 1,
                  [entities |-> <<>>, endpoints |-> <<>>, files |-> <<>>,
                   newEntities |-> <<>>, newEndpoints |-> <<>>,
                   removedEntities |-> <<>>, removedEndpoints |-> <<>>])
    IN  [ totalChanges      |-> Len(preview.impacts),
          modifiedEntities  |-> Len(acc.entities),
          modifiedEndpoints |-> Len(acc.endpoints),
          modifiedFiles     |-> Len(acc.files),
          newEntities       |-> acc.newEntities,
          newEndpoints      |-> acc.newEndpoints,
          removedEntities   |-> acc.removedEntities,
          removedEndpoints  |-> acc.removedEndpoints,
          hasConflicts      |-> Len(preview.conflicts) > 0,
          conflictCount     |-> Len(preview.conflicts) ]

----------------------------------------------------------------------------
(* Inputs drawn for Spec: specs and change requests as JSON values *)

Blank  == [name |-> "", type |-> "string"]
Field1 == [name |-> "title", type |-> "string"]
Untyped == [name |-> "title", type |-> ""]
Rel(t) == [target |-> t, type |-> "one-to-many"]

Entity(id, name, fields, relations) ==
    [id |-> id, name |-> name, fields |-> fields, relations |-> relations]
Endpoint(id, method, path) ==
    [id |-> id, method |-> method, path |-> path, schema |-> "schema"]
Requirement(id, description) == [id |-> id, description |-> description]

FS0 == [src |-> "dir"]
FS1 == [src |-> "dir", docs |-> "dir"]

EntityPool ==
    { Entity("e1", "A", <<Field1>>, <<>>),
      Entity("e1", "A", <<>>, <<Rel("e2")>>),
      Entity("e2", "B", <<>>, <<Rel("A")>>),
      Entity("e2", "A", <<>>, <<>>),
      Entity("e1", "C", <<>>, <<>>),
      Entity("e3", "C", <<Blank>>, <<>>),
      Entity("e3", "e1", <<>>, <<Rel("e1")>>) }

EntityPatchPool ==
    { [name |-> "B"],
      [name |-> "removed"],
      [name |-> "A", fields |-> <<Field1, Blank>>],
      [fields |-> <<Untyped>>],
      [relations |-> <<Rel("B")>>] }

EndpointPool ==
    { Endpoint("p1", "GET", "/a"),
      Endpoint("p2", "POST", "/a"),
      Endpoint("p3", "GET", "/a"),
      Endpoint("p4", "GET", "/b"),
      Endpoint("p1", "GET", "/b") }

EndpointPatchPool == { [method |-> "POST"], [path |-> "/b"] }

RequirementPool == { Requirement("r1", "d1"), Requirement("r2", "d2") }

OperationPool ==
         { [type |-> "addRequirement", requirement |-> r] : r \in RequirementPool }
    \cup { [type |-> "updateRequirement", requirementId |-> "r1", patch |-> [description |-> "d3"]] }
    \cup { [type |-> "removeRequirement", requirementId |-> "r1"] }
    \cup { [type |-> "addEntity", entity |-> e] : e \in EntityPool }
    \cup { [type |-> "updateEntity", entityId |-> id, patch |-> pt] :
               id \in {"e1", "e2"}, pt \in EntityPatchPool }
    \cup { [type |-> "removeEntity", entityId |-> id] : id \in {"e1", "e2"} }
    \cup { [type |-> "addEndpoint", endpoint |-> e] : e \in EndpointPool }
    \cup { [type |-> "updateEndpoint", endpointId |-> id, patch |-> pt] :
               id \in {"p1", "p2"}, pt \in EndpointPatchPool }
    \cup { [type |-> "removeEndpoint", endpointId |-> "p1"] }
    \cup { [type |-> "updateFolderStructure", folder_structure |-> FS1] }
    \cup { [type |-> "renameProject"] }

RequestPool ==
    { [summary |-> <<"change">>, operations |-> ops] :
        ops \in UNION { [1..n -> OperationPool] : n \in 0..MaxOps } }

EmptySpec ==
    [requirements |-> <<>>, entities |-> <<>>, endpoints |-> <<>>, folder_structure |-> FS0]

SpecPool ==
    { EmptySpec,
      [requirements |-> <<Requirement("r1", "d1")>>,
       entities |-> <<Entity("e1", "A", <<Field1>>, <<>>)>>,
       endpoints |-> <<Endpoint("p1", "GET", "/a")>>,
       folder_structure |-> FS0],
      [requirements |-> <<Requirement("r1", "d1")>>,
       entities |-> <<Entity("e1", "A", <<Field1>>, <<>>), Entity("e2", "B", <<>>, <<Rel("A")>>)>>,
       endpoints |-> <<Endpoint("p1", "GET", "/a"), Endpoint("p2", "POST", "/a")>>,
       folder_structure |-> FS0,
       systemOverview |-> "overview"],
      [requirements |-> <<>>,
       entities |-> <<Entity("e2", "B", <<>>, <<Rel("A")>>)>>,
       endpoints |-> <<>>,
       folder_structure |-> FS0] }

----------------------------------------------------------------------------
(* Spec: one call of applyChangeRequestToSpec *)

NoResult == [status |-> "none"]
NoSummary == [status |-> "none"]

ApplyIdle ==
    /\ specs = [cur |-> SpecObject(EmptySpec, "cur"), work |-> SpecObject(EmptySpec, "cur")]
    /\ objs = <<>>
    /\ changeRequest = [summary |-> <<>>, operations |-> <<>>]
    /\ workingSpec = "none"
    /\ conflicts = <<>>
    /\ impacts = <<>>
    /\ opIndex = 0
    /\ applyConflicts = <<>>
    /\ pc = "idle"
    /\ result = NoResult
    /\ impactSummary = NoSummary
    /\ currentSpec0 = EmptySpec
    /\ changeRequest0 = [summary |-> <<>>, operations |-> <<>>]

ValidIdle ==
    /\ vSpec = EmptySpec
    /\ vConflicts = <<>>
    /\ vpc = "idle"

\* the local frame as one record
Frame ==
    [specs |-> specs, objs |-> objs, ptr |-> workingSpec,
     conflicts |-> conflicts, impacts |-> impacts]

SetFrame(w) ==
    /\ specs' = w.specs
    /\ objs' = w.objs
    /\ workingSpec' = w.ptr
    /\ conflicts' = w.conflicts
    /\ impacts' = w.impacts

\* const workingSpec = JSON.parse(JSON.stringify(currentSpec)); conflicts = []; impacts = []
Clone ==
    /\ pc = "call"
    /\ SetFrame(JsonClone(Frame))
    /\ opIndex' = 1
    /\ pc' = "loop"
    /\ UNCHANGED <<changeRequest, applyConflicts, result, impactSummary, currentSpec0,
                   changeRequest0>>
    /\ UNCHANGED <<validVars, serverVars>>

\* the list of workingSpec that the case of an operation type reads
\* (.some, .find, .filter, .push); updateFolderStructure reads none
SectionOf(type) ==
    CASE type \in {"addRequirement", "updateRequirement", "removeRequirement"} -> "requirements"
      [] type \in {"addEntity", "updateEntity", "removeEntity"}                -> "entities"
      [] type \in {"addEndpoint", "updateEndpoint", "removeEndpoint"}          -> "endpoints"
      [] OTHER                                                                 -> "folder_structure"

\* one iteration of the loop, for an operation of the given types
Iterate(types, Case(_, _)) ==
    /\ pc = "loop"
    /\ "operations" \in DOMAIN changeRequest
    /\ opIndex <= Len(changeRequest.operations)
    /\ changeRequest.operations[opIndex].type \in types
    /\ SectionOf(changeRequest.operations[opIndex].type) \in DOMAIN specs[workingSpec]
    /\ LET w == Case(Frame, changeRequest.operations[opIndex])
       IN  /\ SetFrame(w)
           /\ applyConflicts' = Append(applyConflicts, Len(w.conflicts) - Len(conflicts))
    /\ opIndex' = opIndex + 1
    /\ UNCHANGED <<changeRequest, pc, result, impactSummary, currentSpec0, changeRequest0>>
    /\ UNCHANGED <<validVars, serverVars>>

KnownTypes ==
    {"addRequirement", "updateRequirement", "removeRequirement",
     "addEntity", "updateEntity", "removeEntity",
     "addEndpoint", "updateEndpoint", "removeEndpoint", "updateFolderStructure"}

AddRequirement        == Iterate({"addRequirement"}, caseAddRequirement)
UpdateRequirement     == Iterate({"updateRequirement"}, caseUpdateRequirement)
RemoveRequirement     == Iterate({"removeRequirement"}, caseRemoveRequirement)
AddEntity             == Iterate({"addEntity"}, caseAddEntity)
UpdateEntity          == Iterate({"updateEntity"}, caseUpdateEntity)
RemoveEntity          == Iterate({"removeEntity"}, caseRemoveEntity)
AddEndpoint           == Iterate({"addEndpoint"}, caseAddEndpoint)
UpdateEndpoint        == Iterate({"updateEndpoint"}, caseUpdateEndpoint)
RemoveEndpoint        == Iterate({"removeEndpoint"}, caseRemoveEndpoint)
UpdateFolderStructure == Iterate({"updateFolderStructure"}, caseUpdateFolderStructure)
UnsupportedOperation  ==
    /\ pc = "loop"
    /\ "operations" \in DOMAIN changeRequest
    /\ opIndex <= Len(changeRequest.operations)
    /\ changeRequest.operations[opIndex].type \notin KnownTypes
    /\ LET w == caseDefault(Frame, changeRequest.operations[opIndex])
       IN  /\ SetFrame(w)
           /\ applyConflicts' = Append(applyConflicts, Len(w.conflicts) - Len(conflicts))
    /\ opIndex' = opIndex + 1
    /\ UNCHANGED <<changeRequest, pc, result, impactSummary, currentSpec0, changeRequest0>>
    /\ UNCHANGED <<validVars, serverVars>>

\* conflicts.push(...validateSpec(workingSpec)); return { spec, conflicts, impacts }
Return ==
    /\ pc = "loop"
    /\ "operations" \in DOMAIN changeRequest
    /\ opIndex > Len(changeRequest.operations)
    /\ ~validateSpecThrows(DerefSpec(specs, objs, workingSpec))
    /\ LET proposed == DerefSpec(specs, objs, workingSpec)
           all == conflicts \o validateSpec(proposed)
       IN  /\ conflicts' = all
           /\ result' = [status |-> "returned", spec |-> proposed,
                         conflicts |-> all, impacts |-> impacts]
    /\ pc' = "returned"
    /\ UNCHANGED <<specs, objs, changeRequest, workingSpec, impacts, opIndex,
                   applyConflicts, impactSummary, currentSpec0, changeRequest0>>
    /\ UNCHANGED <<validVars, serverVars>>

\* the ChangePreview that computeChangePreview builds from the result
ResultPreview ==
    [proposedSpec |-> result.spec, conflicts |-> result.conflicts, impacts |-> result.impacts]

\* preview-change: summary = generateImpactSummary(preview), and
\* impactedFiles: collectImpactedFiles(preview)
Summarise ==
    /\ pc = "returned"
    /\ impactSummary' = [status |-> "computed",
                   summary |-> generateImpactSummary(ResultPreview),
                   impactedFiles |-> collectImpactedFiles(ResultPreview)]
    /\ pc' = "summarised"
    /\ UNCHANGED <<specs, objs, changeRequest, workingSpec, conflicts, impacts, opIndex,
                   applyConflicts, result, currentSpec0, changeRequest0>>
    /\ UNCHANGED <<validVars, serverVars>>

\* the call ends in an exception and returns nothing
Throw ==
    /\ pc' = "threw"
    /\ UNCHANGED <<specs, objs, changeRequest, workingSpec, conflicts, impacts, opIndex,
                   applyConflicts, result, impactSummary, currentSpec0, changeRequest0>>
    /\ UNCHANGED <<validVars, serverVars>>

\* for (const operation of changeRequest.operations) on a request that has
\* no operations: TypeError, undefined is not iterable
ThrowNotIterable ==
    /\ pc = "loop"
    /\ "operations" \notin DOMAIN changeRequest
    /\ Throw

\* workingSpec.entities.some(...) and the like on a spec that lacks the
\* list: TypeError, cannot read properties of undefined
ThrowInCase ==
    /\ pc = "loop"
    /\ "operations" \in DOMAIN changeRequest
    /\ opIndex <= Len(changeRequest.operations)
    /\ SectionOf(changeRequest.operations[opIndex].type) \notin DOMAIN specs[workingSpec]
    /\ Throw

\* conflicts.push(...validateSpec(workingSpec)) when validateSpec throws
ThrowInValidate ==
    /\ pc = "loop"
    /\ "operations" \in DOMAIN changeRequest
    /\ opIndex > Len(changeRequest.operations)
    /\ validateSpecThrows(DerefSpec(specs, objs, workingSpec))
    /\ Throw

ApplyInit ==
    \E sv \in SpecPool, rv \in RequestPool :
        LET w == CallFrame(sv, rv)
        IN  /\ specs = w.specs
            /\ objs = w.objs
            /\ changeRequest = RequestObject(rv)
            /\ workingSpec = "none"
            /\ conflicts = <<>>
            /\ impacts = <<>>
            /\ opIndex = 0
            /\ applyConflicts = <<>>
            /\ pc = "call"
            /\ result = NoResult
            /\ impactSummary = NoSummary
            /\ currentSpec0 = sv
            /\ changeRequest0 = rv

NoLock == [id |-> 0, lockedBy |-> "nobody", expiresAt |-> 0]

ServerIdle ==
    /\ project = [spec |-> EmptySpec, lock |-> NoLock, lockRows |-> 0]
    /\ versions = <<>>
    /\ features = <<>>
    /\ reviews = <<>>
    /\ now = 0
    /\ reqs = <<>>
    /\ specLog = <<>>

Init == ApplyInit /\ ValidIdle /\ ServerIdle

Next ==
    \/ Clone
    \/ AddRequirement
    \/ UpdateRequirement
    \/ RemoveRequirement
    \/ AddEntity
    \/ UpdateEntity
    \/ RemoveEntity
    \/ AddEndpoint
    \/ UpdateEndpoint
    \/ RemoveEndpoint
    \/ UpdateFolderStructure
    \/ UnsupportedOperation
    \/ Return
    \/ Summarise

Spec == Init /\ [][Next]_vars

----------------------------------------------------------------------------
(* Properties of applyChangeRequestToSpec *)

Returned == pc = "returned"

\* some operation of the request went through Object.assign or a filter on
\* the working copy, i.e. the call really changed an existing element
TouchedExisting ==
    \E i \in DOMAIN changeRequest0.operations :
        /\ changeRequest0.operations[i].type \in
              {"updateRequirement", "updateEntity", "updateEndpoint",
               "removeRequirement", "removeEntity", "removeEndpoint"}
        /\ i \in DOMAIN applyConflicts
        /\ applyConflicts[i] = 0

\* C1: after applyChangeRequestToSpec returns, currentSpec is deep-equal to
\* its value before the call, whatever operations the request holds.
C1_CurrentSpecUnchanged ==
    DerefSpec(specs, objs, "cur") = currentSpec0

\* C1 witness: a call has returned whose request updated or removed an
\* element that came from currentSpec, and the proposed spec differs from it.
C1_Witness ==
    /\ Returned
    /\ TouchedExisting
    /\ result.spec # currentSpec0
    /\ DerefSpec(specs, objs, "cur") = currentSpec0

\* C2 (as claimed): applyChangeRequestToSpec never mutates the change
\* request: the objects carried by its operations are the same after the call.
C2_RequestUnchanged ==
    Returned => DerefRequest(changeRequest, objs) = changeRequest0

\* the operations of the request that pushed no apply-time conflict
NonConflicting ==
    LET idx == { i \in DOMAIN changeRequest0.operations : applyConflicts[i] = 0 }
        F[i \in 0..Len(changeRequest0.operations)] ==
            IF i = 0 THEN <<>>
            ELSE IF i \in idx THEN Append(F[i - 1], changeRequest0.operations[i])
                 ELSE F[i - 1]
    IN  F[Len(changeRequest0.operations)]

\* C4: when a request produces at least one conflict, the proposed spec is
\* the result of applying, in order, exactly the operations that did not
\* conflict; and those operations alone run without any apply-time conflict.
C4_ConflictingOpsLeaveNoTrace ==
    (Returned /\ result.conflicts # <<>>) =>
        LET alone == applyChangeRequestToSpec(currentSpec0,
                        [summary |-> changeRequest0.summary, operations |-> NonConflicting])
        IN  /\ result.spec = alone.spec
            /\ alone.applyTime = 0
            /\ result.impacts = alone.impacts

\* C4 witness: a returned call in which one operation conflicted at apply
\* time and another one was applied and changed the spec.
C4_Witness ==
    /\ Returned
    /\ \E i \in DOMAIN applyConflicts : applyConflicts[i] > 0
    /\ \E i \in DOMAIN applyConflicts : applyConflicts[i] = 0
    /\ result.spec # currentSpec0

\* the relation graph of the spec text: entity i has an edge to entity j when
\* one of i's relations has a target equal to j's id or to j's name
RelationEdge(entities, i, j) ==
    \E k \in DOMAIN entities[i].relations :
        \/ entities[i].relations[k].target = entities[j].id
        \/ entities[i].relations[k].target = entities[j].name

RECURSIVE ReachableFrom(_, _, _)
ReachableFrom(entities, frontier, seen) ==
    LET next == { j \in DOMAIN entities :
                    \E i \in frontier : RelationEdge(entities, i, j) } \ seen
    IN  IF next = {} THEN seen
        ELSE ReachableFrom(entities, next, seen \cup next)

HasCycle(entities) ==
    \E i \in DOMAIN entities : i \in ReachableFrom(entities, {i}, {})

SpecInvariants(spec) ==
    /\ \A i, j \in DOMAIN spec.entities :
          i # j => spec.entities[i].name # spec.entities[j].name
    /\ \A i, j \in DOMAIN spec.endpoints :
          i # j => <<spec.endpoints[i].method, spec.endpoints[i].path>>
                     # <<spec.endpoints[j].method, spec.endpoints[j].path>>
    /\ \A i \in DOMAIN spec.entities : \A k \in DOMAIN spec.entities[i].fields :
          spec.entities[i].fields[k].name # "" /\ spec.entities[i].fields[k].type # ""
    /\ ~HasCycle(spec.entities)

\* C5 (as claimed): an empty conflicts list means the proposed spec satisfies
\* every spec invariant: distinct entity names, distinct (method, path)
\* pairs, no blank field name or type, and an acyclic relation graph.
C5_NoConflictsImpliesInvariants ==
    (Returned /\ result.conflicts = <<>>) => SpecInvariants(result.spec)

IsNaming(c) == c.type = "naming"

\* the request is a single addEntity of a name the valid current spec holds
DuplicateNameCase ==
    /\ validateSpec(currentSpec0) = <<>>
    /\ Len(changeRequest0.operations) = 1
    /\ changeRequest0.operations[1].type = "addEntity"
    /\ \E i \in DOMAIN currentSpec0.entities :
          currentSpec0.entities[i].name = changeRequest0.operations[1].entity.name

\* C10: adding an entity whose name an otherwise valid spec already holds
\* yields exactly one conflict, of type naming, and leaves the entities list
\* of the proposed spec equal to that of the current spec.
C10_DuplicateNameRejected ==
    (Returned /\ DuplicateNameCase) =>
        /\ Len(result.conflicts) = 1
        /\ IsNaming(result.conflicts[1])
        /\ result.spec.entities = currentSpec0.entities
        /\ result.impacts = <<>>

\* C10 witness: such a call has returned, for an entity whose id is new.
C10_Witness ==
    /\ Returned
    /\ DuplicateNameCase
    /\ \A i \in DOMAIN currentSpec0.entities :
          currentSpec0.entities[i].id # changeRequest0.operations[1].entity.id

\* the request is a single addEndpoint on a valid current spec
AddEndpointCase ==
    /\ validateSpec(currentSpec0) = <<>>
    /\ Len(changeRequest0.operations) = 1
    /\ changeRequest0.operations[1].type = "addEndpoint"

\* the current spec holds an endpoint of the same method and the same path
SamePair(endpoint) ==
    \E i \in DOMAIN currentSpec0.endpoints :
        /\ currentSpec0.endpoints[i].method = endpoint.method
        /\ currentSpec0.endpoints[i].path = endpoint.path

\* C11: adding an endpoint whose (method, path) an otherwise valid spec
\* already holds yields exactly one conflict, of type naming, whose details
\* carry that method and that path, and leaves the endpoints list as it was;
\* an endpoint that shares only the method or only the path with the
\* existing ones is appended and no conflict is reported.
C11_DuplicateEndpointRejected ==
    (Returned /\ AddEndpointCase) =>
        LET endpoint == changeRequest0.operations[1].endpoint
        IN  IF SamePair(endpoint)
            THEN /\ Len(result.conflicts) = 1
                 /\ IsNaming(result.conflicts[1])
                 /\ result.conflicts[1].details.method = endpoint.method
                 /\ result.conflicts[1].details.path = endpoint.path
                 /\ result.spec.endpoints = currentSpec0.endpoints
                 /\ result.impacts = <<>>
            ELSE /\ result.conflicts = <<>>
                 /\ result.spec.endpoints = Append(currentSpec0.endpoints, endpoint)
                 /\ Len(result.impacts) = 1

\* C11 witness: an addEndpoint of an existing pair under a new id has
\* returned, on a spec that also holds an endpoint sharing only the path.
C11_Witness ==
    /\ Returned
    /\ AddEndpointCase
    /\ SamePair(changeRequest0.operations[1].endpoint)
    /\ \A i \in DOMAIN currentSpec0.endpoints :
          currentSpec0.endpoints[i].id # changeRequest0.operations[1].endpoint.id
    /\ \E i \in DOMAIN currentSpec0.endpoints :
          /\ currentSpec0.endpoints[i].path = changeRequest0.operations[1].endpoint.path
          /\ currentSpec0.endpoints[i].method # changeRequest0.operations[1].endpoint.method

\* the request is a single addEntity(E) on a valid current spec, E's name is
\* not used there, E's fields are well formed and E closes no relation cycle
RoundTripCase ==
    /\ validateSpec(currentSpec0) = <<>>
    /\ Len(changeRequest0.operations) = 1
    /\ changeRequest0.operations[1].type = "addEntity"
    /\ LET E == changeRequest0.operations[1].entity
       IN  /\ \A i \in DOMAIN currentSpec0.entities : currentSpec0.entities[i].name # E.name
           /\ \A k \in DOMAIN E.fields : E.fields[k].name # "" /\ E.fields[k].type # ""
           /\ ~HasCycle(Append(currentSpec0.entities, E))

\* the second request of the round trip
RemoveRequest(entityId) ==
    [summary |-> <<"change">>,
     operations |-> << [type |-> "removeEntity", entityId |-> entityId] >>]

\* C12 (as claimed): addEntity(E) and then, on its proposed spec, a second
\* request removeEntity(E.id) give back a spec deep-equal to the original,
\* with no conflicts in either step, whenever E's name was not yet used.
C12_AddThenRemoveRoundTrip ==
    (Returned /\ RoundTripCase) =>
        LET E == changeRequest0.operations[1].entity
            second == applyChangeRequestToSpec(result.spec, RemoveRequest(E.id))
        IN  /\ result.conflicts = <<>>
            /\ second.conflicts = <<>>
            /\ second.spec = currentSpec0

RECURSIVE ApplyTimeCount(_)
\* the number of apply-time conflicts pushed by the first i operations
ApplyTimeCount(i) ==
    IF i = 0 THEN 0 ELSE ApplyTimeCount(i - 1) + applyConflicts[i]

\* operation i pushed an apply-time conflict of the given type
RejectedAs(i, type) ==
    /\ applyConflicts[i] = 1
    /\ result.conflicts[ApplyTimeCount(i)].type = type

OnEntity == {"updateEntity", "removeEntity"}

\* the request is addEntity(E) followed by an update or removal of E.id,
\* and the addEntity was applied
AddThenUse ==
    /\ Len(changeRequest0.operations) = 2
    /\ changeRequest0.operations[1].type = "addEntity"
    /\ changeRequest0.operations[2].type \in OnEntity
    /\ changeRequest0.operations[2].entityId = changeRequest0.operations[1].entity.id
    /\ applyConflicts[1] = 0

\* the same two operations the other way round, on an id the current spec
\* does not hold
UseThenAdd ==
    /\ Len(changeRequest0.operations) = 2
    /\ changeRequest0.operations[1].type \in OnEntity
    /\ changeRequest0.operations[2].type = "addEntity"
    /\ changeRequest0.operations[1].entityId = changeRequest0.operations[2].entity.id
    /\ \A i \in DOMAIN currentSpec0.entities :
          currentSpec0.entities[i].id # changeRequest0.operations[1].entityId

\* C13: operations run in array order and see the effect of the earlier
\* ones: after an applied addEntity(E), an updateEntity or removeEntity on
\* E.id in the same request finds E (no missing-field conflict, and a
\* removal is applied and takes E out again); in the opposite order the
\* first operation gets a missing-field conflict and the addEntity still runs.
C13_OperationsSeeEarlierOnes ==
    Returned =>
        /\ AddThenUse =>
              /\ ~RejectedAs(2, "missing-field")
              /\ changeRequest0.operations[2].type = "removeEntity" =>
                    /\ applyConflicts[2] = 0
                    /\ \A i \in DOMAIN result.spec.entities :
                          result.spec.entities[i].id # changeRequest0.operations[2].entityId
        /\ UseThenAdd =>
              /\ RejectedAs(1, "missing-field")
              /\ Len(applyConflicts) = 2

\* C13 witness: an entity of a new id was added and then updated by the
\* same request, both operations applied, and the update shows in the result.
C13_Witness ==
    /\ Returned
    /\ AddThenUse
    /\ changeRequest0.operations[2].type = "updateEntity"
    /\ applyConflicts[2] = 0
    /\ \A i \in DOMAIN currentSpec0.entities :
          currentSpec0.entities[i].id # changeRequest0.operations[1].entity.id
    /\ \E i \in DOMAIN result.spec.entities :
          /\ result.spec.entities[i].id = changeRequest0.operations[1].entity.id
          /\ result.spec.entities[i] # changeRequest0.operations[1].entity

\* C14: every operation is processed exactly once, whatever the earlier
\* ones did, and leaves exactly one outcome: one impact if it was applied or
\* one apply-time conflict if it was rejected, an unsupported type giving a
\* validation conflict.  So impacts plus apply-time conflicts count the
\* operations, and the validator adds conflicts only, never an impact.
C14_OneOutcomePerOperation ==
    /\ \A i \in DOMAIN applyConflicts : applyConflicts[i] \in {0, 1}
    /\ pc = "loop" =>
          /\ Len(applyConflicts) = opIndex - 1
          /\ Len(impacts) + Len(conflicts) = opIndex - 1
          /\ Len(conflicts) = ApplyTimeCount(opIndex - 1)
    /\ Returned =>
          LET n == Len(changeRequest0.operations)
          IN  /\ Len(applyConflicts) = n
              /\ Len(result.impacts) + ApplyTimeCount(n) = n
              /\ Len(result.impacts) = Cardinality({ i \in 1..n : applyConflicts[i] = 0 })
              /\ result.impacts = impacts
              /\ Len(result.conflicts) = ApplyTimeCount(n) + Len(validateSpec(result.spec))
              /\ \A i \in 1..n :
                    changeRequest0.operations[i].type \notin KnownTypes
                        => RejectedAs(i, "validation")

\* C14 witness: the first operation of a request was rejected, the second
\* was applied all the same, and the validator then added a conflict of
\* its own to the single impact.
C14_Witness ==
    /\ Returned
    /\ Len(changeRequest0.operations) = 2
    /\ applyConflicts = <<1, 0>>
    /\ Len(result.impacts) = 1
    /\ Len(result.conflicts) > 1

Summarised == pc = "summarised"

\* the union, as a set, of what the impacts of the result list under a key
AffectedSet(key) ==
    UNION { { result.impacts[i][key][k] : k \in DOMAIN result.impacts[i][key] } :
              i \in { j \in DOMAIN result.impacts : key \in DOMAIN result.impacts[j] } }

\* how many entries the impacts list under a key, repetitions included
AffectedCount(key) ==
    LET F[i \in 0..Len(result.impacts)] ==
            IF i = 0 THEN 0
            ELSE F[i - 1] + (IF key \in DOMAIN result.impacts[i]
                             THEN Len(result.impacts[i][key]) ELSE 0)
    IN  F[Len(result.impacts)]

\* C19: in the summary of a preview, modifiedEntities, modifiedEndpoints
\* and modifiedFiles are the sizes of the unions of the impacts'
\* affectedEntities, affectedEndpoints and affectedFiles - distinct names,
\* not impacts; collectImpactedFiles returns exactly the file union, each
\* file once; conflictCount is the length of preview.conflicts and
\* hasConflicts is true exactly when it is greater than zero.
C19_SummaryCountsUnions ==
    Summarised =>
        LET sm == impactSummary.summary
            files == impactSummary.impactedFiles
        IN  /\ sm.modifiedEntities = Cardinality(AffectedSet("affectedEntities"))
            /\ sm.modifiedEndpoints = Cardinality(AffectedSet("affectedEndpoints"))
            /\ sm.modifiedFiles = Cardinality(AffectedSet("affectedFiles"))
            /\ { files[k] : k \in DOMAIN files } = AffectedSet("affectedFiles")
            /\ Len(files) = Cardinality(AffectedSet("affectedFiles"))
            /\ sm.totalChanges = Len(result.impacts)
            /\ sm.conflictCount = Len(result.conflicts)
            /\ sm.hasConflicts <=> (sm.conflictCount > 0)

\* C19 witness: two impacts name the same entity and share a file, so the
\* counts of the summary are smaller than the numbers of entries, and the
\* preview holds a conflict.
C19_Witness ==
    /\ Summarised
    /\ Len(result.impacts) = 2
    /\ impactSummary.summary.modifiedEntities = 1
    /\ AffectedCount("affectedEntities") = 2
    /\ impactSummary.summary.modifiedFiles < AffectedCount("affectedFiles")
    /\ Len(impactSummary.impactedFiles) < AffectedCount("affectedFiles")
    /\ impactSummary.summary.hasConflicts

\* the names that the impacts whose description holds the word list under
\* a key, in impact order
Classified(word, key) ==
    LET F[i \in 0..Len(result.impacts)] ==
            IF i = 0 THEN <<>>
            ELSE IF /\ \E k \in DOMAIN result.impacts[i].description :
                          PartIncludes(result.impacts[i].description[k], word)
                    /\ key \in DOMAIN result.impacts[i]
                 THEN F[i - 1] \o result.impacts[i][key]
                 ELSE F[i - 1]
    IN  F[Len(result.impacts)]

\* the spec that operation i of the request found
SpecBefore(i) ==
    applyChangeRequestToSpec(currentSpec0,
        [summary |-> changeRequest0.summary,
         operations |-> SubSeq(changeRequest0.operations, 1, i - 1)]).spec

\* the name of the entity that an applied removeEntity at position i removed
RemovedName(i) ==
    LET before == SpecBefore(i).entities
    IN  before[FirstIndex(before,
                   LAMBDA e : e.id = changeRequest0.operations[i].entityId)].name

PrefixResult(n) ==
    applyChangeRequestToSpec(currentSpec0,
        [summary |-> changeRequest0.summary,
         operations |-> SubSeq(changeRequest0.operations, 1, n)])

\* operation i left no trace: same spec and same impacts before and after
Dropped(i) ==
    /\ PrefixResult(i).spec = PrefixResult(i - 1).spec
    /\ PrefixResult(i).impacts = PrefixResult(i - 1).impacts

\* position of the entity that an updateEntity at position i finds
TargetEntity(i) ==
    FirstIndex(SpecBefore(i).entities,
               LAMBDA e : e.id = changeRequest0.operations[i].entityId)

\* the entities other than the target that hold the name the patch sets
OthersNamed(i) ==
    { j \in DOMAIN SpecBefore(i).entities :
        /\ j # TargetEntity(i)
        /\ SpecBefore(i).entities[j].name = changeRequest0.operations[i].patch.name }

\* operation i is an updateEntity of an existing entity whose patch sets a name
RenameAt(i) ==
    /\ changeRequest0.operations[i].type = "updateEntity"
    /\ "name" \in DOMAIN changeRequest0.operations[i].patch
    /\ TargetEntity(i) # 0

\* C21: an updateEntity whose patch sets a name that another entity of the
\* working spec holds yields one naming conflict and is dropped as a whole
\* (no key of the patch is merged, no impact is recorded); a patch that
\* sets the entity's own current name is not a conflict.
C21_RenameToTakenNameDropped ==
    Returned =>
        \A i \in DOMAIN changeRequest0.operations :
            RenameAt(i) =>
                IF OthersNamed(i) # {}
                THEN RejectedAs(i, "naming") /\ Dropped(i)
                ELSE applyConflicts[i] = 0

\* position of the endpoint that an updateEndpoint at position i finds
TargetEndpoint(i) ==
    FirstIndex(SpecBefore(i).endpoints,
               LAMBDA e : e.id = changeRequest0.operations[i].endpointId)

\* operation i is an updateEndpoint of an existing endpoint whose patch
\* sets the method, the path or both
RepairAt(i) ==
    /\ changeRequest0.operations[i].type = "updateEndpoint"
    /\ {"method", "path"} \cap DOMAIN changeRequest0.operations[i].patch # {}
    /\ TargetEndpoint(i) # 0

\* the component of the pair that the endpoint would have after the patch
Resulting(i, key) ==
    IF key \in DOMAIN changeRequest0.operations[i].patch
    THEN changeRequest0.operations[i].patch[key]
    ELSE SpecBefore(i).endpoints[TargetEndpoint(i)][key]

\* the endpoints other than the target that hold the resulting pair
OthersWithPair(i) ==
    { j \in DOMAIN SpecBefore(i).endpoints :
        /\ j # TargetEndpoint(i)
        /\ SpecBefore(i).endpoints[j].method = Resulting(i, "method")
        /\ SpecBefore(i).endpoints[j].path = Resulting(i, "path") }

\* after operation i the target holds the patch's keys and its other keys
\* as before, and every other endpoint is as before
ShallowMerged(i) ==
    LET before == SpecBefore(i).endpoints
        after == PrefixResult(i).spec.endpoints
        patch == changeRequest0.operations[i].patch
        k == TargetEndpoint(i)
    IN  /\ Len(after) = Len(before)
        /\ \A j \in DOMAIN before : j # k => after[j] = before[j]
        /\ DOMAIN after[k] = DOMAIN before[k] \cup DOMAIN patch
        /\ \A key \in DOMAIN after[k] :
              after[k][key] = IF key \in DOMAIN patch THEN patch[key] ELSE before[k][key]

\* C22: updateEndpoint compares the resulting (method, path) pair - the
\* patch's component where it sets one, the endpoint's own otherwise -
\* against every other endpoint; a match yields one naming conflict and
\* leaves the endpoint unchanged, and without a match the patch is
\* shallow-merged into the endpoint.
C22_UpdateEndpointResultingPair ==
    Returned =>
        \A i \in DOMAIN changeRequest0.operations :
            RepairAt(i) =>
                IF OthersWithPair(i) # {}
                THEN RejectedAs(i, "naming") /\ Dropped(i)
                ELSE applyConflicts[i] = 0 /\ ShallowMerged(i)

\* a field whose name or type is blank
IsBlank(field) == field.name = "" \/ field.type = ""

\* operation i is an updateEntity of an existing entity whose patch replaces
\* the fields by a list that holds a blank field, and sets no taken name
BlankFieldsAt(i) ==
    /\ changeRequest0.operations[i].type = "updateEntity"
    /\ TargetEntity(i) # 0
    /\ "fields" \in DOMAIN changeRequest0.operations[i].patch
    /\ \E k \in DOMAIN changeRequest0.operations[i].patch.fields :
          IsBlank(changeRequest0.operations[i].patch.fields[k])
    /\ "name" \in DOMAIN changeRequest0.operations[i].patch => OthersNamed(i) = {}

\* how many blank fields the entities of a name hold
BlankFieldCount(entities, name) ==
    Cardinality(UNION { { <<j, k>> : k \in { f \in DOMAIN entities[j].fields :
                                                IsBlank(entities[j].fields[f]) } } :
                        j \in { e \in DOMAIN entities : entities[e].name = name } })

\* how many missing-field conflicts of a list name an entity of that name
MissingFieldCount(cs, name) ==
    Cardinality({ c \in DOMAIN cs :
                    /\ cs[c].type = "missing-field"
                    /\ "entityName" \in DOMAIN cs[c].details
                    /\ cs[c].details.entityName = name
                    /\ IsBlank(cs[c].details.field) })

\* C24: an updateEntity whose patch replaces fields by a list with a blank
\* field passes the apply-time check: it pushes no apply-time conflict,
\* records one impact, and the blank field is in the proposed spec; the
\* validator then adds one missing-field conflict for each blank field.
C24_BlankFieldCaughtPostHoc ==
    Returned =>
        \A i \in DOMAIN changeRequest0.operations :
            BlankFieldsAt(i) =>
                LET r == PrefixResult(i)
                    entity == r.spec.entities[TargetEntity(i)]
                IN  /\ applyConflicts[i] = 0
                    /\ r.applyTime = PrefixResult(i - 1).applyTime
                    /\ Len(r.impacts) = Len(PrefixResult(i - 1).impacts) + 1
                    /\ entity.fields = changeRequest0.operations[i].patch.fields
                    /\ MissingFieldCount(SubSeq(r.conflicts, r.applyTime + 1, Len(r.conflicts)),
                                         entity.name)
                          = BlankFieldCount(r.spec.entities, entity.name)
                    /\ MissingFieldCount(SubSeq(r.conflicts, 1, r.applyTime), entity.name) = 0

\* C24 witness: a request of the one updateEntity returned with an impact,
\* the untyped field in the proposed spec, and a single conflict, which is
\* the validator's missing-field conflict.
C24_Witness ==
    /\ Returned
    /\ Len(changeRequest0.operations) = 1
    /\ BlankFieldsAt(1)
    /\ applyConflicts = <<0>>
    /\ Len(result.impacts) = 1
    /\ result.spec.entities[TargetEntity(1)].fields = <<Untyped>>
    /\ Len(result.conflicts) = 1
    /\ result.conflicts[1].type = "missing-field"
    /\ result.conflicts[1].details.field = Untyped

\* the sections that an operation of a type is meant to change
Targets(type) ==
    CASE type \in {"addRequirement", "updateRequirement", "removeRequirement"} -> {"requirements"}
      [] type \in {"addEntity", "updateEntity", "removeEntity"}                -> {"entities"}
      [] type \in {"addEndpoint", "updateEndpoint", "removeEndpoint"}          -> {"endpoints"}
      [] type = "updateFolderStructure"                                        -> {"folder_structure"}
      [] OTHER                                                                 -> {}

\* the keys of a spec that no operation targets
Passengers(spec) == DOMAIN spec \ (Sections \cup {"folder_structure"})

\* C25: each operation changes only the section it targets - requirement
\* operations the requirements, entity operations the entities, endpoint
\* operations the endpoints, updateFolderStructure the folder_structure,
\* which it replaces by the operation's tree - and every passenger section
\* of the proposed spec equals that of the current spec.
C25_OperationsChangeOwnSection ==
    Returned =>
        /\ \A i \in DOMAIN changeRequest0.operations :
              LET op == changeRequest0.operations[i]
                  before == SpecBefore(i)
                  after == PrefixResult(i).spec
              IN  /\ DOMAIN after = DOMAIN before
                  /\ \A key \in DOMAIN before \ Targets(op.type) : after[key] = before[key]
                  /\ op.type = "updateFolderStructure"
                        => after.folder_structure = op.folder_structure
        /\ DOMAIN result.spec = DOMAIN currentSpec0
        /\ \A key \in Passengers(currentSpec0) : result.spec[key] = currentSpec0[key]

\* C25 witness: on a spec with a passenger section, a request that adds an
\* entity and replaces the folder tree returned; both were applied, the
\* two targeted sections changed and the others did not.
C25_Witness ==
    /\ Returned
    /\ Passengers(currentSpec0) # {}
    /\ Len(changeRequest0.operations) = 2
    /\ changeRequest0.operations[1].type = "addEntity"
    /\ changeRequest0.operations[2].type = "updateFolderStructure"
    /\ applyConflicts = <<0, 0>>
    /\ result.spec.entities # currentSpec0.entities
    /\ result.spec.folder_structure = FS1
    /\ currentSpec0.folder_structure = FS0
    /\ result.spec.requirements = currentSpec0.requirements
    /\ result.spec.endpoints = currentSpec0.endpoints
    /\ result.spec.systemOverview = currentSpec0.systemOverview

\* the ids of a list are pairwise distinct
DistinctIds(list) ==
    \A i, j \in DOMAIN list : list[i].id = list[j].id => i = j

UniqueIds(spec) ==
    /\ DistinctIds(spec.requirements)
    /\ DistinctIds(spec.entities)
    /\ DistinctIds(spec.endpoints)

\* the list that a remove operation of a type filters
RemovedFrom(type) == IF type = "removeEntity" THEN "entities" ELSE "endpoints"

\* C30 (as claimed): when the current spec has pairwise distinct ids in its
\* three lists and the request returns no conflicts, the proposed spec has
\* pairwise distinct ids in each list too, and every removeEntity and
\* removeEndpoint of the request removed exactly one element.
C30_IdsStayUnique ==
    (Returned /\ UniqueIds(currentSpec0) /\ result.conflicts = <<>>) =>
        /\ UniqueIds(result.spec)
        /\ \A i \in DOMAIN changeRequest0.operations :
              changeRequest0.operations[i].type \in {"removeEntity", "removeEndpoint"} =>
                  Len(PrefixResult(i).spec[RemovedFrom(changeRequest0.operations[i].type)])
                    = Len(SpecBefore(i)[RemovedFrom(changeRequest0.operations[i].type)]) - 1

----------------------------------------------------------------------------
(* TotalSpec: one call of applyChangeRequestToSpec on any JSON the casts   *)
(* of the callers let through: a spec that lacks a list, a request that    *)
(* lacks its operations, an added entity that lacks fields or relations.   *)

NoEntitiesSpec ==
    [requirements |-> <<Requirement("r1", "d1")>>,
     endpoints |-> <<Endpoint("p1", "GET", "/a")>>,
     folder_structure |-> FS0]

NoEndpointsSpec ==
    [requirements |-> <<>>,
     entities |-> <<Entity("e1", "A", <<Field1>>, <<>>)>>,
     folder_structure |-> FS0]

TotalSpecPool == SpecPool \cup {NoEntitiesSpec, NoEndpointsSpec}

NoFieldsEntity    == [id |-> "e3", name |-> "C", relations |-> <<>>]
NoRelationsEntity == [id |-> "e3", name |-> "C", fields |-> <<Field1>>]

NoOperationsRequest == [summary |-> <<"change">>]

TotalRequestPool ==
         { NoOperationsRequest, [summary |-> <<"change">>, operations |-> <<>>] }
    \cup { [summary |-> <<"change">>, operations |-> <<op>>] :
               op \in OperationPool \cup
                      { [type |-> "addEntity", entity |-> e] :
                            e \in {NoFieldsEntity, NoRelationsEntity} } }

TotalInit ==
    /\ \E sv \in TotalSpecPool, rv \in TotalRequestPool :
          /\ specs = [cur |-> SpecObject(sv, "cur"), work |-> SpecObject(sv, "cur")]
          /\ IF "operations" \in DOMAIN rv
             THEN /\ objs = SpecObjects(sv, "cur") @@ RequestObjects(rv)
                  /\ changeRequest = RequestObject(rv)
             ELSE /\ objs = SpecObjects(sv, "cur")
                  /\ changeRequest = rv
          /\ currentSpec0 = sv
          /\ changeRequest0 = rv
    /\ workingSpec = "none"
    /\ conflicts = <<>>
    /\ impacts = <<>>
    /\ opIndex = 0
    /\ applyConflicts = <<>>
    /\ pc = "call"
    /\ result = NoResult
    /\ impactSummary = NoSummary
    /\ ValidIdle
    /\ ServerIdle

TotalNext ==
    \/ Clone
    \/ AddRequirement
    \/ UpdateRequirement
    \/ RemoveRequirement
    \/ AddEntity
    \/ UpdateEntity
    \/ RemoveEntity
    \/ AddEndpoint
    \/ UpdateEndpoint
    \/ RemoveEndpoint
    \/ UpdateFolderStructure
    \/ UnsupportedOperation
    \/ Return
    \/ ThrowNotIterable
    \/ ThrowInCase
    \/ ThrowInValidate

TotalSpec == TotalInit /\ [][TotalNext]_vars

\* the input is not of the shape the types describe
Malformed ==
    \/ "operations" \notin DOMAIN changeRequest0
    \/ Sections \ DOMAIN currentSpec0 # {}
    \/ \E i \in DOMAIN changeRequest0.operations :
          /\ changeRequest0.operations[i].type = "addEntity"
          /\ {"fields", "relations"} \ DOMAIN changeRequest0.operations[i].entity # {}

\* C15 (as claimed): applyChangeRequestToSpec is total: no call ends in an
\* exception, and a call on a malformed input (a request without
\* operations, an added entity without fields or relations, a spec lacking
\* one of its lists) returns a result with a single validation conflict.
C15_ApplierTotal ==
    /\ pc # "threw"
    /\ (Returned /\ Malformed) =>
          /\ Len(result.conflicts) = 1
          /\ result.conflicts[1].type = "validation"

----------------------------------------------------------------------------
(* ValidatorSpec: validateSpec on entity graphs.  Ids and names are        *)
(* distinct by position; the second entity may instead be named "a", the   *)
(* string that is the id of the first; a relation targets a name or an id. *)

GraphIds   == <<"a", "b", "c", "d", "e">>
GraphNames == <<"A", "B", "C", "D", "E">>

GraphTargets(n) == { GraphNames[j] : j \in 1..n } \cup {"a", "b"}

GraphEntities(n) ==
    { g \in [1..n -> [id : {GraphIds[j] : j \in 1..n},
                      name : { GraphNames[j] : j \in 1..n } \cup {"a"},
                      fields : {<<>>},
                      relations : {<<>>} \cup { <<Rel(t)>> : t \in GraphTargets(n) }]] :
        \A i \in 1..n : /\ g[i].id = GraphIds[i]
                        /\ g[i].name \in {GraphNames[i]} \cup (IF i = 2 THEN {"a"} ELSE {}) }

\* specs that lack the entities list, the endpoints list, or both
MissingListSpecs ==
    { [requirements |-> <<>>, endpoints |-> <<>>, folder_structure |-> FS0],
      [requirements |-> <<>>, entities |-> <<>>, folder_structure |-> FS0],
      [requirements |-> <<>>, folder_structure |-> FS0] }

ValidatorInit ==
    /\ \/ \E n \in 0..MaxGraph : \E g \in GraphEntities(n) :
             vSpec = [requirements |-> <<>>, entities |-> g, endpoints |-> <<>>,
                      folder_structure |-> FS0]
       \/ vSpec \in MissingListSpecs
    /\ vConflicts = <<>>
    /\ vpc = "call"
    /\ ApplyIdle
    /\ ServerIdle

\* const conflicts = validateSpec(spec)
Validate ==
    /\ vpc = "call"
    /\ ~validateSpecThrows(vSpec)
    /\ vConflicts' = validateSpec(vSpec)
    /\ vpc' = "returned"
    /\ UNCHANGED <<vSpec, applyVars, serverVars>>

\* the caller drops the result and the next call starts on the same spec
Discard ==
    /\ vpc = "returned"
    /\ vConflicts' = <<>>
    /\ vpc' = "call"
    /\ UNCHANGED <<vSpec, applyVars, serverVars>>

\* for (const entity of spec.entities) / for (const endpoint of
\* spec.endpoints) on a spec that lacks the list: TypeError, no result
ValidateThrows ==
    /\ vpc = "call"
    /\ validateSpecThrows(vSpec)
    /\ vpc' = "threw"
    /\ UNCHANGED <<vSpec, vConflicts, applyVars, serverVars>>

ValidatorNext == Validate \/ Discard \/ ValidateThrows

ValidatorSpec == ValidatorInit /\ [][ValidatorNext]_vars

Circular(cs) == { i \in DOMAIN cs : cs[i].type = "circular-relation" }

\* C9 (as claimed): validateSpec reports a circular-relation conflict if and
\* only if the relation graph has a cycle, where an entity has an edge to
\* every entity whose id or name equals the target of one of its relations.
C9_CircularIffCycle ==
    vpc = "returned" => (Circular(vConflicts) # {} <=> HasCycle(vSpec.entities))

\* entity i lies on a cycle of the relation graph
OnCycle(entities, i) == i \in ReachableFrom(entities, {i}, {})

\* C23 (as claimed): every circular-relation conflict that the validator
\* reports names an entity that lies on a cycle of the relation graph, also
\* when further entities point into a reported cycle or into the path that
\* led to it.
C23_CircularConflictNamesCycleEntity ==
    vpc = "returned" =>
        \A c \in Circular(vConflicts) :
            \E i \in DOMAIN vSpec.entities :
                /\ vSpec.entities[i].id = vConflicts[c].details.entityId
                /\ vSpec.entities[i].name = vConflicts[c].details.entityName
                /\ OnCycle(vSpec.entities, i)

\* the spec has no entity and no endpoint, its lists being empty or missing
NothingToValidate(spec) ==
    /\ "entities" \in DOMAIN spec => spec.entities = <<>>
    /\ "endpoints" \in DOMAIN spec => spec.endpoints = <<>>

\* C16 (as claimed): validateSpec tolerates a spec whose entities list or
\* endpoints list is empty or missing: it never raises an error, and it
\* returns no conflict for a spec that has no entity and no endpoint.
C16_ValidatorToleratesMissingLists ==
    /\ vpc # "threw"
    /\ (vpc = "returned" /\ NothingToValidate(vSpec)) => vConflicts = <<>>

----------------------------------------------------------------------------
(* ServerSpec: the handlers that persist a spec, one action per await.     *)
(* Two requests are in flight, one of each user; each is drawn in          *)
(* ServerInit and runs its handler from getProjectWithAccess to the        *)
(* response.  Both users are collaborators of the one project.             *)

MaxTime == 1         \* the clock runs from 0 to MaxTime

Procs == {1, 2}
UserOf(p) == IF p = 1 THEN "u1" ELSE "u2"
ProjectId == "proj"

DurationPool == {1}

NoPreview == [status |-> "none", conflicts |-> <<>>, proposedSpec |-> EmptySpec]
NoResponse == [code |-> 0]

\* the project as created by POST /projects: the extracted spec and version 1
ServerSpec0 ==
    [requirements |-> <<Requirement("r1", "d1")>>,
     entities |-> <<Entity("e1", "A", <<Field1>>, <<>>)>>,
     endpoints |-> <<Endpoint("p1", "GET", "/a")>>,
     folder_structure |-> FS0]

CRAddEntity ==
    [summary |-> <<"add B">>,
     operations |-> <<[type |-> "addEntity", entity |-> Entity("e2", "B", <<>>, <<Rel("A")>>)]>>]
CRAddRequirement ==
    [summary |-> <<"add r2">>,
     operations |-> <<[type |-> "addRequirement", requirement |-> Requirement("r2", "d2")]>>]

\* a PATCH /spec body: two entities of one name, which validateSpec rejects
BodySpec ==
    [ServerSpec0 EXCEPT !.entities = Append(@, Entity("e2", "A", <<>>, <<>>))]

RequestKinds(u) ==
         { [route |-> "apply-change", user |-> u, changeRequest |-> cr, featureId |-> f] :
               cr \in {CRAddEntity, CRAddRequirement}, f \in {"none", "f1"} }
    \cup { [route |-> "apply-autofix", user |-> u, suggestionId |-> <<"add-timestamps-", "e1">>] }
    \cup { [route |-> "patch-spec", user |-> u, spec |-> BodySpec] }
    \cup { [route |-> "patch-entity", user |-> u, entityId |-> "e1", patch |-> [name |-> "B"]] }
    \cup { [route |-> "patch-endpoint", user |-> u, endpointId |-> "p1", patch |-> [path |-> "/b"]] }
    \cup { [route |-> "lock", user |-> u, durationMinutes |-> d] : d \in DurationPool }
    \cup { [route |-> "unlock", user |-> u] }
    \cup { [route |-> "preview-change", user |-> u, changeRequest |-> CRAddEntity] }

\* toJsonValue / JSON.parse(JSON.stringify(x)): the values of the model are
\* JSON values (strings, arrays, plain objects), which the round trip rebuilds
toJsonValue(value) == value

\* computeChangePreview
ChangePreview(r) ==
    [status |-> "computed", proposedSpec |-> r.spec,
     conflicts |-> r.conflicts, impacts |-> r.impacts]

computeChangePreview(currentSpec, request) ==
    ChangePreview(applyChangeRequestToSpec(currentSpec, request))

\* buildChangeRequest
buildChangeRequest(summary, operations) == [summary |-> summary, operations |-> operations]

\* ensureUserOwnsLock
ensureUserOwnsLock(proj, userId) ==
    IF proj.lock.id = 0 THEN TRUE
    ELSE IF proj.lock.expiresAt < now THEN TRUE
    ELSE proj.lock.lockedBy = userId

\* checkBestPractices + generateAutoFixSuggestions: the add-timestamps
\* suggestions, one per named entity lacking createdAt or updatedAt
TimestampField(n) == [name |-> n, type |-> "DateTime", required |-> TRUE]

RECURSIVE timestampSuggestions(_, _)
timestampSuggestions(spec, i) ==
    IF i > Len(spec.entities) THEN <<>>
    ELSE LET entity == spec.entities[i]
             hasCreatedAt == \E k \in DOMAIN entity.fields : entity.fields[k].name = "createdAt"
             hasUpdatedAt == \E k \in DOMAIN entity.fields : entity.fields[k].name = "updatedAt"
             found == spec.entities[FirstIndex(spec.entities, LAMBDA e : e.id = entity.id)]
         IN  (IF entity.name # "" /\ (~hasCreatedAt \/ ~hasUpdatedAt)
              THEN << [id |-> <<"add-timestamps-", found.id>>,
                       autoFixable |-> TRUE,
                       changeRequest |->
                           [summary |-> <<"Add timestamp fields to ", found.name>>,
                            operations |-> << [type |-> "updateEntity",
                                               entityId |-> found.id,
                                               patch |-> [fields |-> found.fields \o
                                                   <<TimestampField("createdAt"),
                                                     TimestampField("updatedAt")>>]] >>]] >>
              ELSE <<>>) \o timestampSuggestions(spec, i + 1)

\* getNextVersionNumber: (latest?.number ?? 0) + 1
getNextVersionNumber ==
    LET numbers == { versions[i].number : i \in DOMAIN versions }
    IN  (IF numbers = {} THEN 0 ELSE CHOOSE n \in numbers : \A m \in numbers : m <= n) + 1

\* the row that findFirst returns
ProjectRow == [spec |-> project.spec, lock |-> project.lock, base |-> Len(specLog)]

NoSnapshot == [spec |-> EmptySpec, lock |-> NoLock, base |-> 0]
NoRequest == [summary |-> <<>>, operations |-> <<>>]

NewRequest(kind) ==
    [kind |-> kind, pc |-> "getProject", then |-> "handler",
     snapshot |-> NoSnapshot,
     changeRequest |-> NoRequest,
     featureId |-> "none",
     preview |-> NoPreview,
     serializedSpec |-> EmptySpec,
     number |-> 0,
     wrote |-> FALSE,
     response |-> NoResponse]

\* res.status(code).json(payload): the handler is over and its locals die
Respond(p, code, payload) ==
    reqs' = [reqs EXCEPT ![p].pc = "done",
                         ![p].response = [code |-> code] @@ payload,
                         ![p].snapshot = NoSnapshot,
                         ![p].changeRequest = NoRequest,
                         ![p].serializedSpec = EmptySpec,
                         ![p].number = 0]

ServerInit ==
    /\ \E l \in {NoLock, [id |-> 1, lockedBy |-> "u1", expiresAt |-> 0]} :
          project = [spec |-> ServerSpec0, lock |-> l, lockRows |-> l.id]
    /\ versions = << [number |-> 1, spec |-> ServerSpec0, createdBy |-> "u1"] >>
    /\ \E st \in {"APPROVED", "IN_REVIEW"} :
          features = [f1 |-> [projectId |-> ProjectId, status |-> st,
                              changeRequest |-> CRAddEntity]]
    /\ reviews = <<>>
    /\ now = 0
    /\ \E ks \in [Procs -> UNION { RequestKinds(UserOf(p)) : p \in Procs }] :
          /\ \A p \in Procs : ks[p].user = UserOf(p)
          /\ reqs = [p \in Procs |-> NewRequest(ks[p])]
    /\ specLog = <<>>
    /\ ApplyIdle
    /\ ValidIdle

\* time passes
Tick ==
    /\ now < MaxTime
    /\ now' = now + 1
    /\ UNCHANGED <<project, versions, features, reviews, reqs, specLog, applyVars, validVars>>

\* getProjectWithAccess: findFirst, and the expiry test on the row it returned
GetProject(p) ==
    /\ reqs[p].pc = "getProject"
    /\ IF project.lock.id # 0 /\ project.lock.expiresAt < now
       THEN reqs' = [reqs EXCEPT ![p].pc = "deleteExpired", ![p].snapshot = ProjectRow]
       ELSE reqs' = [reqs EXCEPT ![p].pc = reqs[p].then, ![p].snapshot = ProjectRow]
    /\ UNCHANGED <<project, versions, features, reviews, now, specLog, applyVars, validVars>>

\* prisma.projectLock.delete({ where: { id: project.lock.id } }).catch(() => undefined)
DeleteExpiredLock(p) ==
    /\ reqs[p].pc = "deleteExpired"
    /\ project' = IF project.lock.id = reqs[p].snapshot.lock.id
                  THEN [project EXCEPT !.lock = NoLock]
                  ELSE project
    /\ reqs' = [reqs EXCEPT ![p].pc = "reread"]
    /\ UNCHANGED <<versions, features, reviews, now, specLog, applyVars, validVars>>

\* the second findFirst of getProjectWithAccess
Reread(p) ==
    /\ reqs[p].pc = "reread"
    /\ reqs' = [reqs EXCEPT ![p].pc = reqs[p].then, ![p].snapshot = ProjectRow]
    /\ UNCHANGED <<project, versions, features, reviews, now, specLog, applyVars, validVars>>

\* the synchronous head of applyChangeRequest when no feature is given, or
\* after the feature was read: straight on to computeChangePreview
ToApply(p, cr, featureId) ==
    reqs' = [reqs EXCEPT ![p].pc = IF featureId = "none" THEN "preview" ELSE "feature",
                         ![p].changeRequest = cr,
                         ![p].featureId = featureId]

\* app.post('/projects/:id/apply-change')
ApplyChange(p) ==
    /\ reqs[p].pc = "handler"
    /\ reqs[p].kind.route = "apply-change"
    /\ IF ~ensureUserOwnsLock(reqs[p].snapshot, reqs[p].kind.user)
       THEN Respond(p, 423, [error |-> "Project locked by another collaborator"])
       ELSE ToApply(p, reqs[p].kind.changeRequest, reqs[p].kind.featureId)
    /\ UNCHANGED <<project, versions, features, reviews, now, specLog, applyVars, validVars>>

\* app.post('/projects/:id/apply-autofix')
ApplyAutofix(p) ==
    /\ reqs[p].pc = "handler"
    /\ reqs[p].kind.route = "apply-autofix"
    /\ IF ~ensureUserOwnsLock(reqs[p].snapshot, reqs[p].kind.user)
       THEN Respond(p, 423, [error |-> "Project locked by another collaborator"])
       ELSE LET suggestions == timestampSuggestions(reqs[p].snapshot.spec, 1)
                k == FirstIndex(suggestions, LAMBDA sg : sg.id = reqs[p].kind.suggestionId)
            IN  IF k = 0
                THEN Respond(p, 404, [error |-> "Suggestion not found"])
                ELSE ToApply(p, suggestions[k].changeRequest, "none")
    /\ UNCHANGED <<project, versions, features, reviews, now, specLog, applyVars, validVars>>

\* app.patch('/projects/:id/entities/:entityId')
PatchEntity(p) ==
    /\ reqs[p].pc = "handler"
    /\ reqs[p].kind.route = "patch-entity"
    /\ ToApply(p, buildChangeRequest(<<"Update entity ", reqs[p].kind.entityId>>,
                     << [type |-> "updateEntity", entityId |-> reqs[p].kind.entityId,
                         patch |-> reqs[p].kind.patch] >>), "none")
    /\ UNCHANGED <<project, versions, features, reviews, now, specLog, applyVars, validVars>>

\* app.patch('/projects/:id/endpoints/:endpointId')
PatchEndpoint(p) ==
    /\ reqs[p].pc = "handler"
    /\ reqs[p].kind.route = "patch-endpoint"
    /\ ToApply(p, buildChangeRequest(<<"Update endpoint ", reqs[p].kind.endpointId>>,
                     << [type |-> "updateEndpoint", endpointId |-> reqs[p].kind.endpointId,
                         patch |-> reqs[p].kind.patch] >>), "none")
    /\ UNCHANGED <<project, versions, features, reviews, now, specLog, applyVars, validVars>>

\* app.patch('/projects/:id/spec'), up to its first write
PatchSpec(p) ==
    /\ reqs[p].pc = "handler"
    /\ reqs[p].kind.route = "patch-spec"
    /\ IF ~ensureUserOwnsLock(reqs[p].snapshot, reqs[p].kind.user)
       THEN Respond(p, 423, [error |-> "Project locked by another collaborator"])
       ELSE reqs' = [reqs EXCEPT ![p].pc = "updateSpec",
                                 ![p].serializedSpec = toJsonValue(reqs[p].kind.spec)]
    /\ UNCHANGED <<project, versions, features, reviews, now, specLog, applyVars, validVars>>

\* res.json({ preview, impactedFiles, summary })
RespondPreview(p, preview) ==
    reqs' = [reqs EXCEPT ![p].pc = "done",
                         ![p].preview = preview,
                         ![p].response = [code |-> 200,
                                          preview |-> preview,
                                          impactedFiles |-> collectImpactedFiles(preview),
                                          summary |-> generateImpactSummary(preview)],
                         ![p].snapshot = NoSnapshot]

\* app.post('/projects/:id/preview-change')
PreviewChange(p) ==
    /\ reqs[p].pc = "handler"
    /\ reqs[p].kind.route = "preview-change"
    /\ RespondPreview(p, computeChangePreview(reqs[p].snapshot.spec,
                                               reqs[p].kind.changeRequest))
    /\ UNCHANGED <<project, versions, features, reviews, now, specLog, applyVars, validVars>>

\* app.post('/projects/:id/lock'): projectLock.upsert
Lock(p) ==
    /\ reqs[p].pc = "handler"
    /\ reqs[p].kind.route = "lock"
    /\ LET expiresAt == now + reqs[p].kind.durationMinutes
       IN  project' = IF project.lock.id # 0
                      THEN [project EXCEPT !.lock.lockedBy = reqs[p].kind.user,
                                           !.lock.expiresAt = expiresAt]
                      ELSE [project EXCEPT !.lock = [id |-> project.lockRows + 1,
                                                     lockedBy |-> reqs[p].kind.user,
                                                     expiresAt |-> expiresAt],
                                           !.lockRows = @ + 1]
    /\ Respond(p, 200, [lock |-> project'.lock])
    /\ UNCHANGED <<versions, features, reviews, now, specLog, applyVars, validVars>>

\* app.delete('/projects/:id/lock'): projectLock.delete by projectId
Unlock(p) ==
    /\ reqs[p].pc = "handler"
    /\ reqs[p].kind.route = "unlock"
    /\ project' = [project EXCEPT !.lock = NoLock]
    /\ Respond(p, 204, <<>>)
    /\ UNCHANGED <<versions, features, reviews, now, specLog, applyVars, validVars>>

\* applyChangeRequest: feature.findUnique and the two status guards
ReadFeature(p) ==
    /\ reqs[p].pc = "feature"
    /\ LET fid == reqs[p].featureId
       IN  IF fid \notin DOMAIN features \/ features[fid].projectId # ProjectId
           THEN Respond(p, 409, [status |-> "conflict",
                                 error |-> "Feature not found for this project"])
           ELSE IF features[fid].status \notin {"APPROVED", "APPLIED"}
           THEN Respond(p, 409, [status |-> "conflict",
                                 error |-> "Feature status does not allow applying changes"])
           ELSE reqs' = [reqs EXCEPT ![p].pc = "preview"]
    /\ UNCHANGED <<project, versions, features, reviews, now, specLog, applyVars, validVars>>

\* applyChangeRequest without the conflict guard
ComputePreviewUnguarded(p) ==
    /\ reqs[p].pc = "preview"
    /\ LET preview == computeChangePreview(reqs[p].snapshot.spec, reqs[p].changeRequest)
       IN  reqs' = [reqs EXCEPT ![p].pc = "updateSpec",
                                ![p].preview = preview,
                                ![p].serializedSpec = toJsonValue(preview.proposedSpec)]
    /\ UNCHANGED <<project, versions, features, reviews, now, specLog, applyVars, validVars>>

\* applyChangeRequest: computeChangePreview on the project read earlier, the
\* conflict guard, and the serialisation of the proposed spec
ComputePreview(p) ==
    /\ reqs[p].pc = "preview"
    /\ LET preview == computeChangePreview(reqs[p].snapshot.spec, reqs[p].changeRequest)
       IN  IF Len(preview.conflicts) > 0
           THEN reqs' = [reqs EXCEPT ![p].pc = "done",
                                     ![p].preview = preview,
                                     ![p].response = [code |-> 409, status |-> "conflict",
                                                      conflicts |-> preview.conflicts],
                                     ![p].snapshot = NoSnapshot,
                                     ![p].changeRequest = NoRequest]
           ELSE reqs' = [reqs EXCEPT ![p].pc = "updateSpec",
                                     ![p].preview = preview,
                                     ![p].serializedSpec = toJsonValue(preview.proposedSpec)]
    /\ UNCHANGED <<project, versions, features, reviews, now, specLog, applyVars, validVars>>

\* prisma.project.update({ data: { spec } })
UpdateSpec(p) ==
    /\ reqs[p].pc = "updateSpec"
    /\ project' = [project EXCEPT !.spec = reqs[p].serializedSpec]
    /\ specLog' = Append(specLog, [by |-> p, base |-> reqs[p].snapshot.base,
                                   route |-> reqs[p].kind.route,
                                   spec |-> reqs[p].serializedSpec])
    /\ reqs' = [reqs EXCEPT ![p].pc = "nextVersion", ![p].wrote = TRUE]
    /\ UNCHANGED <<versions, features, reviews, now, applyVars, validVars>>

\* persistVersion: getNextVersionNumber
NextVersionNumber(p) ==
    /\ reqs[p].pc = "nextVersion"
    /\ reqs' = [reqs EXCEPT ![p].pc = "createVersion", ![p].number = getNextVersionNumber]
    /\ UNCHANGED <<project, versions, features, reviews, now, specLog, applyVars, validVars>>

\* persistVersion: version.create
CreateVersion(p) ==
    /\ reqs[p].pc = "createVersion"
    /\ versions' = Append(versions, [number |-> reqs[p].number,
                                     spec |-> toJsonValue(reqs[p].serializedSpec),
                                     createdBy |-> reqs[p].kind.user])
    /\ reqs' = [reqs EXCEPT ![p].pc = IF reqs[p].featureId # "none" THEN "featureUpdate"
                                      ELSE "getProject",
                            ![p].then = "respond"]
    /\ UNCHANGED <<project, features, reviews, now, specLog, applyVars, validVars>>

\* applyChangeRequest going on to the refresh without the feature update
MarkFeatureSkipped(p) ==
    /\ reqs[p].pc = "featureUpdate"
    /\ reqs' = [reqs EXCEPT ![p].pc = "getProject", ![p].then = "respond"]
    /\ UNCHANGED <<project, versions, features, reviews, now, specLog, applyVars, validVars>>

\* prisma.feature.update({ data: { status: 'APPLIED' } }).catch(() => undefined)
MarkFeatureApplied(p) ==
    /\ reqs[p].pc = "featureUpdate"
    /\ features' = IF reqs[p].featureId \in DOMAIN features
                   THEN [features EXCEPT ![reqs[p].featureId].status = "APPLIED"]
                   ELSE features
    /\ reqs' = [reqs EXCEPT ![p].pc = "getProject", ![p].then = "respond"]
    /\ UNCHANGED <<project, versions, reviews, now, specLog, applyVars, validVars>>

\* res.json(...) after the refreshing getProjectWithAccess
RespondOk(p) ==
    /\ reqs[p].pc = "respond"
    /\ Respond(p, 200, [status |-> "ok"])
    /\ UNCHANGED <<project, versions, features, reviews, now, specLog, applyVars, validVars>>

ServerNext ==
    \/ Tick
    \/ \E p \in Procs : GetProject(p)
    \/ \E p \in Procs : DeleteExpiredLock(p)
    \/ \E p \in Procs : Reread(p)
    \/ \E p \in Procs : ApplyChange(p)
    \/ \E p \in Procs : ApplyAutofix(p)
    \/ \E p \in Procs : PatchEntity(p)
    \/ \E p \in Procs : PatchEndpoint(p)
    \/ \E p \in Procs : PatchSpec(p)
    \/ \E p \in Procs : Lock(p)
    \/ \E p \in Procs : Unlock(p)
    \/ \E p \in Procs : PreviewChange(p)
    \/ \E p \in Procs : ReadFeature(p)
    \/ \E p \in Procs : ComputePreview(p)
    \/ \E p \in Procs : UpdateSpec(p)
    \/ \E p \in Procs : NextVersionNumber(p)
    \/ \E p \in Procs : CreateVersion(p)
    \/ \E p \in Procs : MarkFeatureApplied(p)
    \/ \E p \in Procs : RespondOk(p)

ServerSpec == ServerInit /\ [][ServerNext]_vars

----------------------------------------------------------------------------
(* Properties of the persisting handlers *)

\* the step is taken by request p
StepOf(p) == reqs'[p] # reqs[p]

\* the step writes the stored spec, a version or a feature
Persists ==
    \/ project'.spec # project.spec
    \/ versions' # versions
    \/ features' # features

\* C3: when the preview of a change request holds a conflict,
\* applyChangeRequest persists nothing - the stored spec, the versions and
\* the features stay as they are - and the caller gets status 'conflict'
\* with all conflicts of the preview; a request that went through a preview
\* writes only when that preview had no conflict.
C3_ConflictPersistsNothing ==
    [][\A p \in Procs :
          /\ (/\ reqs[p].pc = "preview"
              /\ StepOf(p)
              /\ Len(computeChangePreview(reqs[p].snapshot.spec,
                                          reqs[p].changeRequest).conflicts) > 0)
             => /\ ~Persists
                /\ reqs'[p].pc = "done"
                /\ reqs'[p].response.code = 409
                /\ reqs'[p].response.status = "conflict"
                /\ reqs'[p].response.conflicts =
                      computeChangePreview(reqs[p].snapshot.spec,
                                           reqs[p].changeRequest).conflicts
          /\ (StepOf(p) /\ Persists /\ reqs[p].preview.status = "computed")
             => reqs[p].preview.conflicts = <<>>
      ]_vars

\* C3 witness: a request was answered 409 with the conflicts of its preview
\* and wrote nothing, while the other request did persist a spec.
C3_Witness ==
    \E p, q \in Procs :
        /\ reqs[p].pc = "done"
        /\ reqs[p].preview.status = "computed"
        /\ reqs[p].preview.conflicts # <<>>
        /\ reqs[p].response.code = 409
        /\ ~reqs[p].wrote
        /\ reqs[q].wrote

\* C6 (as claimed): two persisting applies never both persist proposed
\* specs computed from the same stored spec: of two writes made by
\* apply-change, the later was computed from a spec holding the earlier.
C6_AtMostOnePersistedApply ==
    \A i, j \in DOMAIN specLog :
        (i < j /\ specLog[i].route = "apply-change" /\ specLog[j].route = "apply-change")
            => specLog[j].base >= i

\* an unexpired lock of a user other than u is on the project
HeldByOther(u) ==
    /\ project.lock.id # 0
    /\ ~(project.lock.expiresAt < now)
    /\ project.lock.lockedBy # u

\* C7 (as claimed): while one user holds an unexpired lock, no request of
\* another user writes the stored spec or a version, on any persisting route.
C7_LockAuthoritative ==
    [][\A p \in Procs :
          (StepOf(p) /\ (project'.spec # project.spec \/ versions' # versions))
             => ~HeldByOther(reqs[p].kind.user)
      ]_vars

\* C8 (as claimed): after creation the stored spec is only ever replaced by
\* a proposedSpec that applyChangeRequestToSpec returned with no conflicts.
C8_OnlyApplierOutputStored ==
    [][project'.spec # project.spec =>
          \E p \in Procs :
              /\ StepOf(p)
              /\ reqs[p].preview.status = "computed"
              /\ reqs[p].preview.conflicts = <<>>
              /\ project'.spec = reqs[p].preview.proposedSpec
      ]_vars

\* request p is over, was answered 200, and wrote a spec under a featureId
PersistedUnderFeature(p) ==
    /\ reqs[p].pc = "done"
    /\ reqs[p].response.code = 200
    /\ reqs[p].kind.route = "apply-change"
    /\ reqs[p].wrote
    /\ reqs[p].featureId # "none"

Expired == project.lock.id # 0 /\ project.lock.expiresAt < now

\* C18 (as claimed): a preview-change request needs no lock and persists
\* nothing: none of its steps changes the stored spec, the versions or the
\* features, none changes the holder or the expiry of a lock that has not
\* expired, whoever holds it, and it is answered 200 with its preview.
C18_PreviewPersistsNothing ==
    [][\A p \in Procs :
          (StepOf(p) /\ reqs[p].kind.route = "preview-change") =>
              /\ project'.spec = project.spec
              /\ versions' = versions
              /\ features' = features
              /\ (project'.lock = project.lock \/ Expired)
              /\ reqs'[p].pc = "done" =>
                    /\ reqs'[p].response.code = 200
                    /\ reqs'[p].response.preview.status = "computed"
      ]_vars

\* some request has replaced the stored spec and not yet created its version
VersionPending ==
    \E p \in Procs : reqs[p].pc \in {"nextVersion", "createVersion"}

\* C26 (as claimed): every spec replacement creates one new Version whose
\* number is greater than every earlier one, so the version numbers of the
\* project are pairwise distinct, and once the replacements are complete the
\* highest-numbered version holds the stored spec, also when two persisting
\* requests interleave.
C26_VersionNumbersIncrease ==
    /\ \A i, j \in DOMAIN versions : i < j => versions[i].number < versions[j].number
    /\ Len(versions) + Cardinality({ p \in Procs : reqs[p].pc \in {"nextVersion", "createVersion"} })
          = 1 + Len(specLog)
    /\ ~VersionPending => versions[Len(versions)].spec = project.spec

\* C27 (as claimed): while one user holds an unexpired lock, no step of a
\* lock or unlock request made by a different user changes the holder or
\* the expiry of the lock.
C27_OthersLeaveLockAlone ==
    [][\A p \in Procs :
          (/\ StepOf(p)
           /\ reqs[p].kind.route \in {"lock", "unlock"}
           /\ HeldByOther(reqs[p].kind.user))
             => project'.lock = project.lock
      ]_vars

----------------------------------------------------------------------------
(* ReviewSpec: apply-change with a featureId interleaved with the review   *)
(* routes, which write the status of the feature.                          *)

DecisionPool == {"APPROVED", "REJECTED"}

ReviewKinds(u) ==
         { [route |-> "apply-change", user |-> u, changeRequest |-> CRAddEntity,
            featureId |-> "f1"] }
    \cup { [route |-> "reviews", user |-> u, featureId |-> "f1"] }
    \cup { [route |-> "decision", user |-> u, featureId |-> "f1", reviewId |-> 1,
            status |-> st] : st \in DecisionPool }

\* the decision route does not call getProjectWithAccess: it starts at its
\* feature.findUnique
NewReviewRequest(kind) ==
    IF kind.route = "decision"
    THEN [NewRequest(kind) EXCEPT !.pc = "findFeature"]
    ELSE NewRequest(kind)

\* a feature of the project under review by u2, or approved by u2
ReviewInit ==
    /\ \E l \in {NoLock, [id |-> 1, lockedBy |-> "u1", expiresAt |-> 0]} :
          project = [spec |-> ServerSpec0, lock |-> l, lockRows |-> l.id]
    /\ versions = << [number |-> 1, spec |-> ServerSpec0, createdBy |-> "u1"] >>
    /\ \E st \in {"APPROVED", "IN_REVIEW"} :
          /\ features = [f1 |-> [projectId |-> ProjectId, status |-> st,
                                 changeRequest |-> CRAddEntity]]
          /\ reviews = << [id |-> 1, featureId |-> "f1", projectId |-> ProjectId,
                           reviewerId |-> "u2",
                           status |-> IF st = "APPROVED" THEN "APPROVED" ELSE "PENDING"] >>
    /\ now = 0
    /\ \E ks \in [Procs -> UNION { ReviewKinds(UserOf(p)) : p \in Procs }] :
          /\ \A p \in Procs : ks[p].user = UserOf(p)
          /\ reqs = [p \in Procs |-> NewReviewRequest(ks[p])]
    /\ specLog = <<>>
    /\ ApplyIdle
    /\ ValidIdle

\* POST reviews: feature.findUnique and the 404 guard
ReviewFindFeature(p) ==
    /\ reqs[p].pc = "handler"
    /\ reqs[p].kind.route = "reviews"
    /\ LET fid == reqs[p].kind.featureId
       IN  IF fid \notin DOMAIN features \/ features[fid].projectId # ProjectId
           THEN Respond(p, 404, [error |-> "Feature not found"])
           ELSE reqs' = [reqs EXCEPT ![p].pc = "createReview"]
    /\ UNCHANGED <<project, versions, features, reviews, now, specLog, applyVars, validVars>>

\* POST reviews: projectReview.create with status PENDING
CreateReview(p) ==
    /\ reqs[p].pc = "createReview"
    /\ reviews' = Append(reviews, [id |-> Len(reviews) + 1,
                                   featureId |-> reqs[p].kind.featureId,
                                   projectId |-> ProjectId,
                                   reviewerId |-> reqs[p].kind.user,
                                   status |-> "PENDING"])
    /\ reqs' = [reqs EXCEPT ![p].pc = "featureInReview"]
    /\ UNCHANGED <<project, versions, features, now, specLog, applyVars, validVars>>

\* POST reviews: feature.update({ status: 'IN_REVIEW' }) and the 201
MarkFeatureInReview(p) ==
    /\ reqs[p].pc = "featureInReview"
    /\ features' = [features EXCEPT ![reqs[p].kind.featureId].status = "IN_REVIEW"]
    /\ Respond(p, 201, [review |-> Len(reviews)])
    /\ UNCHANGED <<project, versions, reviews, now, specLog, applyVars, validVars>>

\* POST decision: feature.findUnique and the 404 guard
DecisionFindFeature(p) ==
    /\ reqs[p].pc = "findFeature"
    /\ LET fid == reqs[p].kind.featureId
       IN  IF fid \notin DOMAIN features \/ features[fid].projectId # ProjectId
           THEN Respond(p, 404, [error |-> "Feature not found"])
           ELSE reqs' = [reqs EXCEPT ![p].pc = "findReview"]
    /\ UNCHANGED <<project, versions, features, reviews, now, specLog, applyVars, validVars>>

\* POST decision: projectReview.findUnique, the 404 and the 403 guards
DecisionFindReview(p) ==
    /\ reqs[p].pc = "findReview"
    /\ LET rid == reqs[p].kind.reviewId
       IN  IF rid \notin DOMAIN reviews \/ reviews[rid].projectId # ProjectId
           THEN Respond(p, 404, [error |-> "Review not found"])
           ELSE IF reviews[rid].reviewerId # reqs[p].kind.user
           THEN Respond(p, 403, [error |-> "Only the reviewer may record a decision"])
           ELSE reqs' = [reqs EXCEPT ![p].pc = "updateReview"]
    /\ UNCHANGED <<project, versions, features, reviews, now, specLog, applyVars, validVars>>

\* POST decision: projectReview.update({ status, comment })
DecisionUpdateReview(p) ==
    /\ reqs[p].pc = "updateReview"
    /\ reviews' = [reviews EXCEPT ![reqs[p].kind.reviewId].status = reqs[p].kind.status]
    /\ reqs' = [reqs EXCEPT ![p].pc = "featureDecision"]
    /\ UNCHANGED <<project, versions, features, now, specLog, applyVars, validVars>>

\* POST decision: feature.update to APPROVED or to REJECTED, and the answer
DecisionUpdateFeature(p) ==
    /\ reqs[p].pc = "featureDecision"
    /\ features' = IF reqs[p].kind.status \in {"APPROVED", "REJECTED"}
                   THEN [features EXCEPT ![reqs[p].kind.featureId].status = reqs[p].kind.status]
                   ELSE features
    /\ Respond(p, 200, [message |-> "Decision recorded"])
    /\ UNCHANGED <<project, versions, reviews, now, specLog, applyVars, validVars>>

ReviewNext ==
    \/ Tick
    \/ \E p \in Procs : GetProject(p)
    \/ \E p \in Procs : DeleteExpiredLock(p)
    \/ \E p \in Procs : Reread(p)
    \/ \E p \in Procs : ApplyChange(p)
    \/ \E p \in Procs : ReadFeature(p)
    \/ \E p \in Procs : ComputePreview(p)
    \/ \E p \in Procs : UpdateSpec(p)
    \/ \E p \in Procs : NextVersionNumber(p)
    \/ \E p \in Procs : CreateVersion(p)
    \/ \E p \in Procs : MarkFeatureApplied(p)
    \/ \E p \in Procs : RespondOk(p)
    \/ \E p \in Procs : ReviewFindFeature(p)
    \/ \E p \in Procs : CreateReview(p)
    \/ \E p \in Procs : MarkFeatureInReview(p)
    \/ \E p \in Procs : DecisionFindFeature(p)
    \/ \E p \in Procs : DecisionFindReview(p)
    \/ \E p \in Procs : DecisionUpdateReview(p)
    \/ \E p \in Procs : DecisionUpdateFeature(p)

ReviewSpec == ReviewInit /\ [][ReviewNext]_vars

\* C28 (as claimed): a spec change is persisted under a featureId only if,
\* at the moment of the write, the feature belongs to the project and its
\* status is APPROVED or APPLIED, also when a review or a review decision
\* interleaves with the apply request.
C28_WriteOnlyUnderApprovedFeature ==
    [][\A p \in Procs :
          (/\ StepOf(p)
           /\ reqs[p].kind.route = "apply-change"
           /\ reqs[p].featureId # "none"
           /\ project'.spec # project.spec)
             => /\ reqs[p].featureId \in DOMAIN features
                /\ features[reqs[p].featureId].projectId = ProjectId
                /\ features[reqs[p].featureId].status \in {"APPROVED", "APPLIED"}
      ]_vars

\* C29 (as claimed): when apply-change is called with a featureId, the
\* operations that it applies and persists, and for which it marks the
\* feature APPLIED, are those of the change request stored in the feature
\* record: the spec it writes is the one that the stored request proposes.
C29_AppliesTheFeaturesRequest ==
    [][\A p \in Procs :
          (/\ StepOf(p)
           /\ reqs[p].kind.route = "apply-change"
           /\ reqs[p].featureId \in DOMAIN features
           /\ reqs[p].pc \in {"updateSpec", "featureUpdate"})
             => /\ reqs[p].changeRequest.operations
                      = features[reqs[p].featureId].changeRequest.operations
                /\ reqs[p].serializedSpec
                      = computeChangePreview(reqs[p].snapshot.spec,
                            features[reqs[p].featureId].changeRequest).proposedSpec
      ]_vars
====
